---- MODULE Spec2Model ----
(***************************************************************************)
(* Streaming column profiling of libis/rdm-integration                     *)
(* (image/cdi_generator.py, image/cdi_generator_jsonld.py).                *)
(*                                                                         *)
(* The specifications of the module:                                       *)
(*   Spec        one ColumnStats accumulator fed an arbitrary sequence of  *)
(*               update calls;                                             *)
(*   SpecResolve the pure resolvers xsd_datatype / role applied to every   *)
(*               combination of flags, counts and distinct estimates;      *)
(*   SpecScan    the header handling and row loop of stream_profile_csv;   *)
(*   SpecHeader  a scan in auto header mode: detect_header_mode, then the  *)
(*               header handling and row loop;                             *)
(*   SpecCall    a whole call of stream_profile_csv: validation, the       *)
(*               detection steps, the checksum, the open file and the      *)
(*               exceptions that leave it;                                 *)
(*   SpecSpellings one accumulator fed the case spellings of the boolean   *)
(*               words;                                                    *)
(*   SpecJsonld  the node identifiers of build_jsonld_graph;               *)
(*   SpecManifest a manifest run of generate_manifest_cdi or               *)
(*               generate_manifest_jsonld under main.                      *)
(*                                                                         *)
(* A str is a sequence of one-character strings, so that strip, lower,     *)
(* int(), float() and encode() are computed and not assumed.               *)
(***************************************************************************)
EXTENDS Integers, Sequences, FiniteSets, TLC

VARIABLES
    col,                  \* Spec: the ColumnStats accumulator
    fed,                  \* Spec: how often each input of INPUTS was passed to update
    arg,                  \* SpecResolve: the accumulator fields the resolvers read
    res,                  \* SpecResolve: what the resolvers returned
    file,                 \* SpecScan: the rows csv.reader yields for the file
    header_decision,      \* SpecScan: header present (TRUE) or absent (FALSE)
    limit_rows,           \* SpecScan: the limit_rows argument
    pos,                  \* SpecScan: rows the current reader has consumed
    columns,              \* SpecScan: the column name list
    stats,                \* SpecScan: the list of ColumnStats
    data_rows_processed,  \* SpecScan: the running row counter
    dispatched,           \* SpecScan: update calls made so far, per column
    pc,                   \* SpecScan: position in stream_profile_csv
    path,                 \* SpecCall: what path.exists() and path.stat() report
    encoding,             \* SpecCall: the encoding argument
    delimiter,            \* SpecCall: the delimiter argument
    header,               \* SpecCall: the header argument
    compute_md5,          \* SpecCall: the compute_md5 argument
    outcome,              \* SpecCall: what chardet, the Sniffer and the reads did
    enc,                  \* SpecCall: the encoding the file is opened with
    dialect,              \* SpecCall: the dialect of the reader
    file_md5,             \* SpecCall: the checksum
    f,                    \* SpecCall: the file handle of the scan
    exc,                  \* SpecCall: the exception in flight or raised
    full_reads,           \* SpecCall: reads of the file from its start to its end
    manifest,             \* SpecManifest: the manifest and the arguments of the call
    next_file,            \* SpecManifest: index of the next entry of manifest["files"]
    graph,                \* SpecManifest: the triples of the rdflib Graph
    files_data,           \* SpecManifest: files_data of generate_manifest_jsonld
    summary_payload,      \* SpecManifest: the per-file summary entries
    total_rows,           \* SpecManifest: the running sum of rows_read
    warnings,             \* SpecManifest: the warnings collected
    output,               \* SpecManifest: what was written to output_path and summary_json
    result,               \* SpecManifest: the tuple returned
    cli                   \* SpecManifest: exit status and standard error of main

\* the arguments of a call other than limit_rows
arg_vars == <<path, encoding, delimiter, header, compute_md5>>

\* what the steps before the open file leave behind
detect_vars == <<outcome, enc, dialect, file_md5>>

call_vars == <<arg_vars, detect_vars, f, exc, full_reads>>

\* the state of a manifest run
manifest_vars == <<manifest, next_file, graph, files_data, summary_payload, total_rows,
                   warnings, output, result, cli>>

vars == <<col, fed, arg, res, file, header_decision, limit_rows, pos, columns,
          stats, data_rows_processed, dispatched, pc, call_vars, manifest_vars>>

----------------------------------------------------------------------------
(* Bounds of the model *)

\* update calls made on the accumulator of Spec
MaxRows == 5
\* largest n_non_missing and largest distinct estimate SpecResolve draws
MaxCount == 100
\* rows in a scanned file, cells in a row
MaxFileRows == 2
MaxRowLen == 2

----------------------------------------------------------------------------
(* Python str, modelled as a sequence of characters *)

\* Python's None
None == <<"None">>

\* the printable ASCII characters, code point 32 .. 126 (code point 96, the grave
\* accent, cannot be written in a string here and is held by a placeholder)
ASCII ==
    <<" ", "!", "\"", "#", "$", "%", "&", "'", "(", ")", "*", "+", ",", "-", ".", "/",
      "0", "1", "2", "3", "4", "5", "6", "7", "8", "9", ":", ";", "<", "=", ">", "?",
      "@", "A", "B", "C", "D", "E", "F", "G", "H", "I", "J", "K", "L", "M", "N", "O",
      "P", "Q", "R", "S", "T", "U", "V", "W", "X", "Y", "Z", "[", "\\", "]", "^", "_",
      "GRAVE", "a", "b", "c", "d", "e", "f", "g", "h", "i", "j", "k", "l", "m", "n", "o",
      "p", "q", "r", "s", "t", "u", "v", "w", "x", "y", "z", "{", "|", "}", "~">>

ord(c) == 31 + (CHOOSE i \in 1..Len(ASCII) : ASCII[i] = c)

chr(n) == ASCII[n - 31]

WHITESPACE == {" ", "\t", "\n", "\r"}

DIGITS == {"0", "1", "2", "3", "4", "5", "6", "7", "8", "9"}

\* str.lower() on one character: A-Z (65..90) maps to a-z
lower_char(c) == IF ord(c) >= 65 /\ ord(c) <= 90 THEN chr(ord(c) + 32) ELSE c

lower(s) == [i \in 1..Len(s) |-> lower_char(s[i])]

RECURSIVE lstrip(_)
lstrip(s) == IF s # <<>> /\ Head(s) \in WHITESPACE THEN lstrip(Tail(s)) ELSE s

RECURSIVE rstrip(_)
rstrip(s) ==
    IF s # <<>> /\ s[Len(s)] \in WHITESPACE THEN rstrip(SubSeq(s, 1, Len(s) - 1)) ELSE s

\* str.strip()
strip(s) == rstrip(lstrip(s))

\* s.encode("utf-8", "ignore"): one byte per ASCII character
utf8_encode(s) == [i \in 1..Len(s) |-> ord(s[i])]

----------------------------------------------------------------------------
(* Type classifier *)

MISSING ==
    { <<>>,
      <<"n", "a">>, <<"n", "/", "a">>, <<"n", "u", "l", "l">>, <<"n", "o", "n", "e">>,
      <<"n", "a", "n">>,
      <<"N", "A">>, <<"N", "/", "A">>, <<"N", "U", "L", "L">>, <<"N", "o", "n", "e">>,
      <<"N", "a", "N">> }

\* index after an optional sign at position i
skip_sign(s, i) == IF i <= Len(s) /\ s[i] \in {"+", "-"} THEN i + 1 ELSE i

\* index after the digits that follow position i - 1: digit (["_"] digit)*
RECURSIVE more_digits(_, _)
more_digits(s, i) ==
    IF i <= Len(s) /\ s[i] \in DIGITS THEN more_digits(s, i + 1)
    ELSE IF i + 1 <= Len(s) /\ s[i] = "_" /\ s[i + 1] \in DIGITS THEN more_digits(s, i + 2)
    ELSE i

\* index after a digit part starting at i; i itself when there is none
skip_digitpart(s, i) ==
    IF i <= Len(s) /\ s[i] \in DIGITS THEN more_digits(s, i + 1) ELSE i

\* int(s) succeeds: [whitespace] [sign] digitpart [whitespace]
int_parses(s) ==
    LET t == strip(s)
        i == skip_sign(t, 1)
        j == skip_digitpart(t, i)
    IN  j > i /\ j = Len(t) + 1

\* index after an optional exponent starting at k; 0 when the exponent is malformed
skip_exponent(s, k) ==
    IF k <= Len(s) /\ s[k] \in {"e", "E"}
    THEN LET l == skip_sign(s, k + 1)
             e == skip_digitpart(s, l)
         IN  IF e > l THEN e ELSE 0
    ELSE k

\* float(s) succeeds: [sign] (inf | infinity | nan | decimal number [exponent])
float_parses(s) ==
    LET t == strip(s)
        i == skip_sign(t, 1)
        word == lower(SubSeq(t, i, Len(t)))
        j == skip_digitpart(t, i)
        k == IF j > i
             THEN IF j <= Len(t) /\ t[j] = "." THEN skip_digitpart(t, j + 1) ELSE j
             ELSE IF i <= Len(t) /\ t[i] = "."
                  THEN LET fr == skip_digitpart(t, i + 1) IN IF fr > i + 1 THEN fr ELSE 0
                  ELSE 0
    IN  \/ word \in { <<"i", "n", "f">>, <<"n", "a", "n">>,
                      <<"i", "n", "f", "i", "n", "i", "t", "y">> }
        \/ k > 0 /\ skip_exponent(t, k) = Len(t) + 1

is_int(s) == int_parses(s)

is_float(s) == float_parses(s) /\ ~is_int(s)

BOOL_WORDS ==
    { <<"t", "r", "u", "e">>, <<"f", "a", "l", "s", "e">>, <<"t">>, <<"f">>, <<"0">>, <<"1">>,
      <<"y", "e", "s">>, <<"n", "o">>, <<"y">>, <<"n">> }

is_bool(s) == lower(s) \in BOOL_WORDS

\* What dateutil.parser.parse(s, fuzzy=False) does with the shapes the model feeds
\* it: a lone number is a day of the month when it is 1..31 and a year when it is
\* larger (29..31 are accepted or not by the month of the current date; no input of
\* the model is one, and they are left out here); a lone decimal is truncated to such
\* a number; YYYY-MM-DD is a calendar date; a token with other characters is rejected.
number_value(s) ==
    LET RECURSIVE val(_, _)
        val(i, acc) == IF i > Len(s) \/ s[i] \notin DIGITS THEN acc
                       ELSE val(i + 1, IF acc > 9999 THEN acc ELSE 10 * acc + (ord(s[i]) - 48))
    IN  val(1, 0)

days_in_month(y, m) ==
    IF m = 2 THEN (IF y % 4 = 0 /\ (y % 100 # 0 \/ y % 400 = 0) THEN 29 ELSE 28)
    ELSE IF m \in {4, 6, 9, 11} THEN 30 ELSE 31

is_iso_date(s) ==
    /\ Len(s) = 10
    /\ \A i \in {1, 2, 3, 4, 6, 7, 9, 10} : s[i] \in DIGITS
    /\ s[5] = "-" /\ s[8] = "-"
    /\ number_value(SubSeq(s, 1, 4)) >= 1
    /\ number_value(SubSeq(s, 6, 7)) \in 1..12
    /\ number_value(SubSeq(s, 9, 10)) \in
           1..days_in_month(number_value(SubSeq(s, 1, 4)), number_value(SubSeq(s, 6, 7)))

is_datetime(s) ==
    LET d == skip_digitpart(s, 1)
        all_digits == d > 1 /\ d <= 5 /\ \A i \in 1..(d - 1) : s[i] \in DIGITS
        lone_integer == all_digits /\ d = Len(s) + 1
        lone_decimal == /\ all_digits /\ d < Len(s) /\ Len(s) <= 5 /\ s[d] = "."
                        /\ \A i \in (d + 1)..Len(s) : s[i] \in DIGITS
        v == number_value(s)
    IN  \/ (lone_integer \/ lone_decimal) /\ (v \in 1..28 \/ v > 31)
        \/ is_iso_date(s)

----------------------------------------------------------------------------
(* Cardinality estimator: datasketch.HyperLogLog(p=12) *)

HLL_P == 12

\* 2^n
RECURSIVE pow2(_)
pow2(n) == IF n = 0 THEN 1 ELSE 2 * pow2(n - 1)

\* number of registers
HLL_M == pow2(HLL_P)

\* sha1_hash32 yields 32 bits; max_rank = 32 - p
HASH_BITS == 32

\* int.bit_length()
RECURSIVE bit_length(_)
bit_length(n) == IF n = 0 THEN 0 ELSE 1 + bit_length(n \div 2)

\* sha1_hash32 of the byte strings the model hashes, as hv >> p (hi) and
\* hv & (m - 1) (lo): the first four bytes of the SHA-1 digest, little endian
sha1_hash32(b) ==
    CASE b = <<49>> -> [hi |-> 176534, lo |-> 2613]                  \* "1"   723085877
      [] b = <<48>> -> [hi |-> 813557, lo |-> 2230]                  \* "0"   3332331702
      [] b = <<50>> -> [hi |-> 227620, lo |-> 3034]                  \* "2"   932334554
      [] b = <<49, 57>> -> [hi |-> 1010815, lo |-> 179]              \* "19"  4140298419
      [] b = <<49, 52, 55>> -> [hi |-> 51004, lo |-> 179]            \* "147" 208912563
      [] b = <<49, 46, 53>> -> [hi |-> 647816, lo |-> 4010]          \* "1.5" 2653458346
      [] b = <<89>> -> [hi |-> 259294, lo |-> 2851]                  \* "Y"   1062071075
      [] b = <<97, 98, 99>> -> [hi |-> 222185, lo |-> 2473]          \* "abc" 910072233
      [] b = <<78, 117, 108, 108>> -> [hi |-> 780377, lo |-> 16]     \* "Null" 3196424208
      [] b = <<50, 48, 50, 48, 45, 48, 49, 45, 49, 53>> -> [hi |-> 325175, lo |-> 212]
                                                                     \* "2020-01-15" 1331917012
      [] b = <<57, 53, 46, 53>> -> [hi |-> 628855, lo |-> 843]  \* "95.5" 2575790923
      [] b = <<74, 111, 104, 110, 32, 68, 111, 101>> -> [hi |-> 74966, lo |-> 3758]  \* "John Doe" 307064494
      [] b = <<50, 48, 50, 49, 45, 48, 51, 45, 50, 50>> -> [hi |-> 75233, lo |-> 1185]  \* "2021-03-22" 308155553
      [] b = <<56, 56, 46, 50>> -> [hi |-> 335702, lo |-> 2583]  \* "88.2" 1375037975
      [] b = <<74, 97, 110, 101, 32, 83, 109, 105, 116, 104>> -> [hi |-> 1007043, lo |-> 164]  \* "Jane Smith" 4124848292
      \* the case spellings of true, false, yes and no
      [] b = <<116, 114, 117, 101>> -> [hi |-> 243007, lo |-> 3679]  \* "true" 995360351
      [] b = <<116, 114, 117, 69>> -> [hi |-> 430131, lo |-> 3595]  \* "truE" 1761820171
      [] b = <<116, 114, 85, 101>> -> [hi |-> 763785, lo |-> 3319]  \* "trUe" 3128466679
      [] b = <<116, 114, 85, 69>> -> [hi |-> 943248, lo |-> 2611]  \* "trUE" 3863546419
      [] b = <<116, 82, 117, 101>> -> [hi |-> 176141, lo |-> 1124]  \* "tRue" 721474660
      [] b = <<116, 82, 117, 69>> -> [hi |-> 817877, lo |-> 3610]  \* "tRuE" 3350027802
      [] b = <<116, 82, 85, 101>> -> [hi |-> 731512, lo |-> 2350]  \* "tRUe" 2996275502
      [] b = <<116, 82, 85, 69>> -> [hi |-> 767173, lo |-> 1007]  \* "tRUE" 3142341615
      [] b = <<84, 114, 117, 101>> -> [hi |-> 320491, lo |-> 904]  \* "True" 1312732040
      [] b = <<84, 114, 117, 69>> -> [hi |-> 261888, lo |-> 917]  \* "TruE" 1072694165
      [] b = <<84, 114, 85, 101>> -> [hi |-> 542396, lo |-> 1985]  \* "TrUe" 2221656001
      [] b = <<84, 114, 85, 69>> -> [hi |-> 292143, lo |-> 1804]  \* "TrUE" 1196619532
      [] b = <<84, 82, 117, 101>> -> [hi |-> 904992, lo |-> 3017]  \* "TRue" 3706850249
      [] b = <<84, 82, 117, 69>> -> [hi |-> 237211, lo |-> 3513]  \* "TRuE" 971619769
      [] b = <<84, 82, 85, 101>> -> [hi |-> 990572, lo |-> 157]  \* "TRUe" 4057383069
      [] b = <<84, 82, 85, 69>> -> [hi |-> 1012189, lo |-> 4093]  \* "TRUE" 4145930237
      [] b = <<102, 97, 108, 115, 101>> -> [hi |-> 761595, lo |-> 1660]  \* "false" 3119494780
      [] b = <<102, 97, 108, 115, 69>> -> [hi |-> 1029919, lo |-> 4084]  \* "falsE" 4218552308
      [] b = <<102, 97, 108, 83, 101>> -> [hi |-> 571017, lo |-> 509]  \* "falSe" 2338886141
      [] b = <<102, 97, 108, 83, 69>> -> [hi |-> 41975, lo |-> 3051]  \* "falSE" 171932651
      [] b = <<102, 97, 76, 115, 101>> -> [hi |-> 795117, lo |-> 2560]  \* "faLse" 3256801792
      [] b = <<102, 97, 76, 115, 69>> -> [hi |-> 723061, lo |-> 2100]  \* "faLsE" 2961659956
      [] b = <<102, 97, 76, 83, 101>> -> [hi |-> 91466, lo |-> 244]  \* "faLSe" 374644980
      [] b = <<102, 97, 76, 83, 69>> -> [hi |-> 950720, lo |-> 1710]  \* "faLSE" 3894150830
      [] b = <<102, 65, 108, 115, 101>> -> [hi |-> 1042568, lo |-> 3442]  \* "fAlse" 4270361970
      [] b = <<102, 65, 108, 115, 69>> -> [hi |-> 795781, lo |-> 1389]  \* "fAlsE" 3259520365
      [] b = <<102, 65, 108, 83, 101>> -> [hi |-> 502784, lo |-> 1639]  \* "fAlSe" 2059404903
      [] b = <<102, 65, 108, 83, 69>> -> [hi |-> 332778, lo |-> 85]  \* "fAlSE" 1363058773
      [] b = <<102, 65, 76, 115, 101>> -> [hi |-> 145052, lo |-> 1753]  \* "fALse" 594134745
      [] b = <<102, 65, 76, 115, 69>> -> [hi |-> 462026, lo |-> 662]  \* "fALsE" 1892459158
      [] b = <<102, 65, 76, 83, 101>> -> [hi |-> 652069, lo |-> 2199]  \* "fALSe" 2670876823
      [] b = <<102, 65, 76, 83, 69>> -> [hi |-> 224277, lo |-> 3561]  \* "fALSE" 918642153
      [] b = <<70, 97, 108, 115, 101>> -> [hi |-> 818140, lo |-> 3479]  \* "False" 3351104919
      [] b = <<70, 97, 108, 115, 69>> -> [hi |-> 391440, lo |-> 4032]  \* "FalsE" 1603342272
      [] b = <<70, 97, 108, 83, 101>> -> [hi |-> 315903, lo |-> 3573]  \* "FalSe" 1293942261
      [] b = <<70, 97, 108, 83, 69>> -> [hi |-> 823252, lo |-> 648]  \* "FalSE" 3372040840
      [] b = <<70, 97, 76, 115, 101>> -> [hi |-> 41141, lo |-> 4055]  \* "FaLse" 168517591
      [] b = <<70, 97, 76, 115, 69>> -> [hi |-> 661155, lo |-> 3491]  \* "FaLsE" 2708094371
      [] b = <<70, 97, 76, 83, 101>> -> [hi |-> 3038, lo |-> 3694]  \* "FaLSe" 12447342
      [] b = <<70, 97, 76, 83, 69>> -> [hi |-> 364638, lo |-> 2495]  \* "FaLSE" 1493559743
      [] b = <<70, 65, 108, 115, 101>> -> [hi |-> 906233, lo |-> 1545]  \* "FAlse" 3711931913
      [] b = <<70, 65, 108, 115, 69>> -> [hi |-> 43314, lo |-> 2507]  \* "FAlsE" 177416651
      [] b = <<70, 65, 108, 83, 101>> -> [hi |-> 963658, lo |-> 1006]  \* "FAlSe" 3947144174
      [] b = <<70, 65, 108, 83, 69>> -> [hi |-> 113692, lo |-> 3963]  \* "FAlSE" 465686395
      [] b = <<70, 65, 76, 115, 101>> -> [hi |-> 431458, lo |-> 2281]  \* "FALse" 1767254249
      [] b = <<70, 65, 76, 115, 69>> -> [hi |-> 927639, lo |-> 883]  \* "FALsE" 3799610227
      [] b = <<70, 65, 76, 83, 101>> -> [hi |-> 493170, lo |-> 545]  \* "FALSe" 2020024865
      [] b = <<70, 65, 76, 83, 69>> -> [hi |-> 744829, lo |-> 526]  \* "FALSE" 3050820110
      [] b = <<121, 101, 115>> -> [hi |-> 639219, lo |-> 1787]  \* "yes" 2618242811
      [] b = <<121, 101, 83>> -> [hi |-> 185119, lo |-> 872]  \* "yeS" 758248296
      [] b = <<121, 69, 115>> -> [hi |-> 707442, lo |-> 2770]  \* "yEs" 2897685202
      [] b = <<121, 69, 83>> -> [hi |-> 115489, lo |-> 3457]  \* "yES" 473046401
      [] b = <<89, 101, 115>> -> [hi |-> 364041, lo |-> 1875]  \* "Yes" 1491113811
      [] b = <<89, 101, 83>> -> [hi |-> 2401, lo |-> 1978]  \* "YeS" 9836474
      [] b = <<89, 69, 115>> -> [hi |-> 362499, lo |-> 104]  \* "YEs" 1484796008
      [] b = <<89, 69, 83>> -> [hi |-> 622655, lo |-> 3983]  \* "YES" 2550398863
      [] b = <<110, 111>> -> [hi |-> 219233, lo |-> 765]  \* "no" 897979133
      [] b = <<110, 79>> -> [hi |-> 890875, lo |-> 3249]  \* "nO" 3649027249
      [] b = <<78, 111>> -> [hi |-> 1037606, lo |-> 3201]  \* "No" 4250037377
      [] b = <<78, 79>> -> [hi |-> 489909, lo |-> 160]  \* "NO" 2006667424

\* HyperLogLog(p=12): every register is 0; a register map holds the non-zero ones
hll_new == << >>

hll_reg(reg, j) == IF j \in DOMAIN reg THEN reg[j] ELSE 0

max(a, b) == IF a >= b THEN a ELSE b

min(a, b) == IF a <= b THEN a ELSE b

\* hll_update with the register overwritten where the maximum is kept
hll_update_overwrites(reg, b) ==
    LET hv == sha1_hash32(b)
        rank == (HASH_BITS - HLL_P) - bit_length(hv.hi) + 1
    IN  [j \in (DOMAIN reg) \cup {hv.lo} |-> IF j = hv.lo THEN rank ELSE reg[j]]

\* HyperLogLog.update(b): reg[hv & (m-1)] = max(reg[..], max_rank - bit_length(hv >> p) + 1)
hll_update(reg, b) ==
    LET hv == sha1_hash32(b)
        rank == (HASH_BITS - HLL_P) - bit_length(hv.hi) + 1
        new == max(hll_reg(reg, hv.lo), rank)
    IN  [j \in (DOMAIN reg) \cup {hv.lo} |-> IF j = hv.lo THEN new ELSE reg[j]]

\* int(HyperLogLog.count()). With k non-zero registers the raw estimate is at most
\* alpha * m^2 / (m - k), below the small-range threshold 2.5 m for every k the model
\* reaches, so count() is the linear counting m * ln(m / (m - k)), which is
\* k + k^2 / 2m + k^3 / 3m^2 + ...; in thousandths, exact after truncation for k <= 129.
hll_count(reg) ==
    LET k == Cardinality(DOMAIN reg)
    IN  (1000 * k + (1000 * k * k) \div (2 * HLL_M)
                  + (1000 * k * k * k) \div (3 * HLL_M * HLL_M)) \div 1000

----------------------------------------------------------------------------
(* ColumnStats *)

\* ColumnStats.__init__
ColumnStats(name) ==
    [ name |-> name, n_non_missing |-> 0, n_rows |-> 0, hll |-> hll_new,
      could_be_int |-> TRUE, could_be_float |-> TRUE,
      could_be_bool |-> TRUE, could_be_datetime |-> TRUE ]

\* update with each flag set from the current token alone
update_recomputes_flags(c, raw) ==
    LET c1 == [c EXCEPT !.n_rows = @ + 1]
        s == strip(raw)
    IN  IF raw = None THEN c1
        ELSE IF s \in MISSING THEN c1
        ELSE [c1 EXCEPT
                !.n_non_missing = @ + 1,
                !.hll = hll_update(@, utf8_encode(s)),
                !.could_be_int = is_int(s),
                !.could_be_float = is_float(s) \/ is_int(s),
                !.could_be_bool = is_bool(s),
                !.could_be_datetime = is_datetime(s)]

\* update with float candidacy tested by is_float alone
update_float_excludes_int(c, raw) ==
    LET c1 == [c EXCEPT !.n_rows = @ + 1]
        s == strip(raw)
    IN  IF raw = None THEN c1
        ELSE IF s \in MISSING THEN c1
        ELSE [c1 EXCEPT
                !.n_non_missing = @ + 1,
                !.hll = hll_update(@, utf8_encode(s)),
                !.could_be_int = IF @ /\ ~is_int(s) THEN FALSE ELSE @,
                !.could_be_float = IF @ /\ ~is_float(s) THEN FALSE ELSE @,
                !.could_be_bool = IF @ /\ ~is_bool(s) THEN FALSE ELSE @,
                !.could_be_datetime = IF @ /\ ~is_datetime(s) THEN FALSE ELSE @]

\* update with float candidacy withdrawn by a token that is a plain integer
update_float_needs_fraction(c, raw) ==
    LET c1 == [c EXCEPT !.n_rows = @ + 1]
        s == strip(raw)
    IN  IF raw = None THEN c1
        ELSE IF s \in MISSING THEN c1
        ELSE [c1 EXCEPT
                !.n_non_missing = @ + 1,
                !.hll = hll_update(@, utf8_encode(s)),
                !.could_be_int = IF @ /\ ~is_int(s) THEN FALSE ELSE @,
                !.could_be_float = IF @ /\ ~(is_float(s) /\ ~is_int(s)) THEN FALSE ELSE @,
                !.could_be_bool = IF @ /\ ~is_bool(s) THEN FALSE ELSE @,
                !.could_be_datetime = IF @ /\ ~is_datetime(s) THEN FALSE ELSE @]

\* update with the missing-value test made without regard to case
update_missing_ignores_case(c, raw) ==
    LET c1 == [c EXCEPT !.n_rows = @ + 1]
        s == strip(raw)
    IN  IF raw = None THEN c1
        ELSE IF lower(s) \in MISSING THEN c1
        ELSE [c1 EXCEPT
                !.n_non_missing = @ + 1,
                !.hll = hll_update(@, utf8_encode(s)),
                !.could_be_int = IF @ /\ ~is_int(s) THEN FALSE ELSE @,
                !.could_be_float = IF @ /\ ~(is_float(s) \/ is_int(s)) THEN FALSE ELSE @,
                !.could_be_bool = IF @ /\ ~is_bool(s) THEN FALSE ELSE @,
                !.could_be_datetime = IF @ /\ ~is_datetime(s) THEN FALSE ELSE @]

\* update with n_non_missing counted first and n_rows only past the early returns
update_counts_rows_last(c, raw) ==
    LET c1 == [c EXCEPT !.n_non_missing = @ + 1]
        s == strip(raw)
    IN  IF raw = None THEN c1
        ELSE IF s \in MISSING THEN c1
        ELSE [c1 EXCEPT
                !.n_rows = @ + 1,
                !.hll = hll_update(@, utf8_encode(s)),
                !.could_be_int = IF @ /\ ~is_int(s) THEN FALSE ELSE @,
                !.could_be_float = IF @ /\ ~(is_float(s) \/ is_int(s)) THEN FALSE ELSE @,
                !.could_be_bool = IF @ /\ ~is_bool(s) THEN FALSE ELSE @,
                !.could_be_datetime = IF @ /\ ~is_datetime(s) THEN FALSE ELSE @]

\* update with the None test made before n_rows is counted
update_none_not_counted(c, raw) ==
    LET c1 == [c EXCEPT !.n_rows = @ + 1]
        s == strip(raw)
    IN  IF raw = None THEN c
        ELSE IF s \in MISSING THEN c1
        ELSE [c1 EXCEPT
                !.n_non_missing = @ + 1,
                !.hll = hll_update(@, utf8_encode(s)),
                !.could_be_int = IF @ /\ ~is_int(s) THEN FALSE ELSE @,
                !.could_be_float = IF @ /\ ~(is_float(s) \/ is_int(s)) THEN FALSE ELSE @,
                !.could_be_bool = IF @ /\ ~is_bool(s) THEN FALSE ELSE @,
                !.could_be_datetime = IF @ /\ ~is_datetime(s) THEN FALSE ELSE @]

\* ColumnStats.update
update(c, raw) ==
    LET c1 == [c EXCEPT !.n_rows = @ + 1]
        s == strip(raw)
    IN  IF raw = None THEN c1
        ELSE IF s \in MISSING THEN c1
        ELSE [c1 EXCEPT
                !.n_non_missing = @ + 1,
                !.hll = hll_update(@, utf8_encode(s)),
                !.could_be_int = IF @ /\ ~is_int(s) THEN FALSE ELSE @,
                !.could_be_float = IF @ /\ ~(is_float(s) \/ is_int(s)) THEN FALSE ELSE @,
                !.could_be_bool = IF @ /\ ~is_bool(s) THEN FALSE ELSE @,
                !.could_be_datetime = IF @ /\ ~is_datetime(s) THEN FALSE ELSE @]

\* xsd_datatype with the integer branch not guarded by n_non_missing > 0
xsd_datatype_ignores_count(c) ==
    IF c.could_be_int THEN "integer"
    ELSE IF c.could_be_float /\ c.n_non_missing > 0 THEN "decimal"
    ELSE IF c.could_be_bool /\ c.n_non_missing > 0 THEN "boolean"
    ELSE IF c.could_be_datetime /\ c.n_non_missing > 0 THEN "dateTime"
    ELSE "string"

\* xsd_datatype with boolean tried before the numeric types
xsd_datatype_bool_first(c) ==
    IF c.could_be_bool /\ c.n_non_missing > 0 THEN "boolean"
    ELSE IF c.could_be_int /\ c.n_non_missing > 0 THEN "integer"
    ELSE IF c.could_be_float /\ c.n_non_missing > 0 THEN "decimal"
    ELSE IF c.could_be_datetime /\ c.n_non_missing > 0 THEN "dateTime"
    ELSE "string"

\* ColumnStats.xsd_datatype (cdi_generator.py), the local name of the XSD URI
xsd_datatype(c) ==
    IF c.could_be_int /\ c.n_non_missing > 0 THEN "integer"
    ELSE IF c.could_be_float /\ c.n_non_missing > 0 THEN "decimal"
    ELSE IF c.could_be_bool /\ c.n_non_missing > 0 THEN "boolean"
    ELSE IF c.could_be_datetime /\ c.n_non_missing > 0 THEN "dateTime"
    ELSE "string"

\* ColumnStats.xsd_datatype_name (cdi_generator_jsonld.py)
xsd_datatype_name(c) ==
    IF c.could_be_int /\ c.n_non_missing > 0 THEN "integer"
    ELSE IF c.could_be_float /\ c.n_non_missing > 0 THEN "decimal"
    ELSE IF c.could_be_bool /\ c.n_non_missing > 0 THEN "boolean"
    ELSE IF c.could_be_datetime /\ c.n_non_missing > 0 THEN "dateTime"
    ELSE "string"

\* ColumnStats.approx_distinct
approx_distinct(c) == hll_count(c.hll)

\* role_rules with the measure rule tried before the identifier rule
role_rules_measure_first(n_non_missing, distinct, dt) ==
    LET den == IF n_non_missing > 1 THEN n_non_missing ELSE 1
        ratio_ge_095 == 20 * distinct >= 19 * den
    IN  IF n_non_missing = 0 THEN "attribute"
        ELSE IF dt \in {"integer", "decimal"} THEN "measure"
        ELSE IF ratio_ge_095 /\ n_non_missing >= 50 THEN "identifier"
        ELSE IF dt \in {"boolean"} \/ distinct <= (IF 50 <= n_non_missing \div 10 THEN 50 ELSE n_non_missing \div 10)
             THEN "dimension"
        ELSE "attribute"

\* role_rules with the dimension rule tried before the measure rule
role_rules_dimension_first(n_non_missing, distinct, dt) ==
    LET den == IF n_non_missing > 1 THEN n_non_missing ELSE 1
        ratio_ge_095 == 20 * distinct >= 19 * den
    IN  IF n_non_missing = 0 THEN "attribute"
        ELSE IF ratio_ge_095 /\ n_non_missing >= 50 THEN "identifier"
        ELSE IF dt \in {"boolean"} \/ distinct <= (IF 50 <= n_non_missing \div 10 THEN 50 ELSE n_non_missing \div 10)
             THEN "dimension"
        ELSE IF dt \in {"integer", "decimal"} /\ ~ratio_ge_095 THEN "measure"
        ELSE "attribute"

\* the rules of ColumnStats.role on n_non_missing, the distinct estimate and the
\* datatype. uniq_ratio = distinct / max(1, n) is compared with 0.95 = 19/20 in
\* integers, and int(0.1 * n) is n \div 10.
role_rules(n_non_missing, distinct, dt) ==
    LET den == max(1, n_non_missing)
        ratio_ge_095 == 20 * distinct >= 19 * den
    IN  IF n_non_missing = 0 THEN "attribute"
        ELSE IF ratio_ge_095 /\ n_non_missing >= 50 THEN "identifier"
        ELSE IF dt \in {"integer", "decimal"} /\ ~ratio_ge_095 THEN "measure"
        ELSE IF dt \in {"boolean"} \/ distinct <= min(50, n_non_missing \div 10)
             THEN "dimension"
        ELSE "attribute"

\* ColumnStats.role
role(c) == role_rules(c.n_non_missing, approx_distinct(c), xsd_datatype(c))

----------------------------------------------------------------------------
(* Spec: one accumulator under arbitrary update calls *)

\* what update is called with: None and raw cell texts
INPUTS ==
    << None,
       << >>,                                               \* ""
       <<"N", "A">>,                                        \* "NA"
       <<"n", "u", "l", "l">>,                              \* "null"
       <<" ", "N", "A">>,                                   \* " NA"
       <<"n", "a", "n">>,                                   \* "nan"
       <<"N", "u", "l", "l">>,                              \* "Null"
       <<"1">>,                                             \* "1"
       <<" ", "1">>,                                        \* " 1"
       <<"0">>,                                             \* "0"
       <<"2">>,                                             \* "2"
       <<"1", "9">>,                                        \* "19"
       <<"1", "4", "7">>,                                   \* "147"
       <<"1", ".", "5">>,                                   \* "1.5"
       <<"Y">>,                                             \* "Y"
       <<"a", "b", "c">>,                                   \* "abc"
       <<"2", "0", "2", "0", "-", "0", "1", "-", "1", "5">> \* "2020-01-15"
    >>

InputIds == 1..Len(INPUTS)

\* number of update calls recorded in a bag of inputs
RECURSIVE bag_size_upto(_, _)
bag_size_upto(bag, i) == IF i = 0 THEN 0 ELSE bag[i] + bag_size_upto(bag, i - 1)

bag_size(bag) == bag_size_upto(bag, Len(INPUTS))

\* an exception: its type and the texts its message is made of
exception(kind, message) == [kind |-> kind, message |-> message]

NoException == exception("none", << >>)

\* the exception raised by a library or by the code, with its own message
raised(kind) == exception(kind, <<kind>>)

Idle == << >>

\* no manifest run is under way
IdleManifest ==
    /\ manifest = Idle /\ next_file = 0 /\ graph = {} /\ files_data = Idle
    /\ summary_payload = Idle /\ total_rows = 0 /\ warnings = Idle
    /\ output = Idle /\ result = Idle /\ cli = Idle

\* no call of stream_profile_csv is under way
IdleCall ==
    /\ path = Idle /\ encoding = Idle /\ delimiter = Idle /\ header = Idle
    /\ compute_md5 = FALSE /\ outcome = Idle /\ enc = Idle /\ dialect = Idle
    /\ file_md5 = Idle /\ f = "unopened" /\ exc = NoException /\ full_reads = 0

InitColumn ==
    /\ col = ColumnStats(<<"c">>)
    /\ fed = [i \in InputIds |-> 0]
    /\ arg = Idle /\ res = Idle
    /\ file = Idle /\ header_decision = FALSE /\ limit_rows = 0 /\ pos = 0
    /\ columns = Idle /\ stats = Idle /\ data_rows_processed = 0 /\ dispatched = Idle
    /\ pc = "idle"
    /\ IdleCall
    /\ IdleManifest

\* one call col.update(INPUTS[i])
Update ==
    \E i \in InputIds :
        /\ bag_size(fed) < MaxRows
        /\ col' = update(col, INPUTS[i])
        /\ fed' = [fed EXCEPT ![i] = @ + 1]
        /\ UNCHANGED <<manifest_vars, arg, res, file, header_decision, limit_rows, pos, columns,
                       stats, data_rows_processed, dispatched, pc, call_vars>>

Next == Update

Spec == InitColumn /\ [][Next]_vars

----------------------------------------------------------------------------
(* SpecResolve: the resolvers as functions of the fields they read *)

FLAGS == [could_be_int : BOOLEAN, could_be_float : BOOLEAN,
          could_be_bool : BOOLEAN, could_be_datetime : BOOLEAN]

\* an accumulator with the given flags, n non-missing rows and k non-zero registers
column_with(fl, n, k) ==
    [ name |-> <<"c">>, n_non_missing |-> n, n_rows |-> n, hll |-> [j \in 1..k |-> 1],
      could_be_int |-> fl.could_be_int, could_be_float |-> fl.could_be_float,
      could_be_bool |-> fl.could_be_bool, could_be_datetime |-> fl.could_be_datetime ]

InitResolve ==
    /\ \E fl \in FLAGS, n \in 0..MaxCount :
         \E k \in 0..n : arg = column_with(fl, n, k)
    /\ res = Idle
    /\ col = Idle /\ fed = Idle
    /\ file = Idle /\ header_decision = FALSE /\ limit_rows = 0 /\ pos = 0
    /\ columns = Idle /\ stats = Idle /\ data_rows_processed = 0 /\ dispatched = Idle
    /\ pc = "idle"
    /\ IdleCall
    /\ IdleManifest

\* the three queries of a finalized accumulator
Resolve ==
    /\ res = Idle
    /\ res' = [ datatype |-> xsd_datatype(arg), datatype_name |-> xsd_datatype_name(arg),
                distinct |-> approx_distinct(arg), role |-> role(arg) ]
    /\ UNCHANGED <<manifest_vars, col, fed, arg, file, header_decision, limit_rows, pos, columns,
                   stats, data_rows_processed, dispatched, pc, call_vars>>

NextResolve == Resolve

SpecResolve == InitResolve /\ [][NextResolve]_vars

----------------------------------------------------------------------------
(* SpecScan: header handling and row loop of stream_profile_csv *)

\* the cell texts of the scanned files
CELLS == { << >>, <<"1">> }

\* all sequences over S of length at most n
seqs_upto(S, n) == UNION { [1..k -> S] : k \in 0..n }

ROWS == seqs_upto(CELLS, MaxRowLen)

FILES == seqs_upto(ROWS, MaxFileRows)

\* Optional[int]: None is the empty tuple, n is <<n>>
NoLimit == << >>

LIMITS == {NoLimit} \cup { <<n>> : n \in 0..MaxFileRows }

\* truthy with 0 taken for a limit: only None is false
truthy_zero_is_limit(x) == x # NoLimit

\* the truth value of an Optional[int]: None and 0 are false
truthy(x) == x # NoLimit /\ x[1] # 0

\* str(n) for n >= 0
RECURSIVE str_of_int(_)
str_of_int(n) ==
    IF n < 10 THEN <<chr(48 + n)>> ELSE str_of_int(n \div 10) \o <<chr(48 + (n % 10))>>

\* f"col_{i+1}" for the 0-based i; the model counts positions from 1
col_name(i) == <<"c", "o", "l", "_">> \o str_of_int(i)

\* [ColumnStats(name.strip() or f"col_{i+1}") for i, name in enumerate(columns)]
new_stats(names) ==
    [i \in 1..Len(names) |->
        ColumnStats(IF strip(names[i]) # << >> THEN strip(names[i]) ELSE col_name(i))]

\* the row padded with "" only
pad_or_trim_pads_only(row, n) ==
    IF Len(row) < n THEN row \o [i \in 1..(n - Len(row)) |-> << >>] ELSE row

\* pad/trim length mismatches defensively
pad_or_trim(row, n) ==
    IF Len(row) < n THEN row \o [i \in 1..(n - Len(row)) |-> << >>]
    ELSE IF Len(row) > n THEN SubSeq(row, 1, n)
    ELSE row

\* the limit test that lets one row too many through
limit_reached_after(limit, n) == truthy(limit) /\ n > limit[1]

\* if limit_rows and data_rows_processed >= limit_rows: break
limit_reached(limit, n) == truthy(limit) /\ n >= limit[1]

\* for i, val in enumerate(row): stats[i].update(val)
dispatch(st, row) ==
    [i \in 1..Len(st) |-> IF i <= Len(row) THEN update(st[i], row[i]) ELSE st[i]]

InitScan ==
    /\ file \in FILES
    /\ header_decision \in BOOLEAN
    /\ limit_rows \in LIMITS
    /\ pos = 0 /\ columns = << >> /\ stats = << >>
    /\ data_rows_processed = 0 /\ dispatched = << >>
    /\ pc = "open"
    /\ col = Idle /\ fed = Idle /\ arg = Idle /\ res = Idle
    /\ path = Idle /\ encoding = Idle /\ delimiter = Idle /\ header = Idle
    /\ compute_md5 = FALSE /\ outcome = Idle /\ enc = Idle /\ dialect = Idle
    /\ file_md5 = Idle /\ f = "open" /\ exc = NoException /\ full_reads = 0
    /\ IdleManifest

\* header_decision true: the first row is the column names
HeaderPresent ==
    /\ pc = "open" /\ header_decision /\ file # << >>
    /\ columns' = file[1]
    /\ pos' = 1
    /\ stats' = new_stats(file[1])
    /\ data_rows_processed' = 0
    /\ pc' = "loop"
    /\ UNCHANGED <<manifest_vars, col, fed, arg, res, file, header_decision, limit_rows, dispatched,
                   call_vars>>

\* header absent without the f.seek(0): the loop goes on after the peeked row
HeaderAbsent_no_rewind ==
    /\ pc = "open" /\ ~header_decision /\ file # << >>
    /\ columns' = [i \in 1..Len(file[1]) |-> col_name(i)]
    /\ pos' = 1
    /\ stats' = new_stats([i \in 1..Len(file[1]) |-> col_name(i)])
    /\ data_rows_processed' = 0
    /\ pc' = "loop"
    /\ UNCHANGED <<manifest_vars, col, fed, arg, res, file, header_decision, limit_rows, dispatched,
                   call_vars>>

\* header_decision false: the first row gives the width, then f.seek(0) and a new reader
HeaderAbsent ==
    /\ pc = "open" /\ ~header_decision /\ file # << >>
    /\ columns' = [i \in 1..Len(file[1]) |-> col_name(i)]
    /\ pos' = 0
    /\ stats' = new_stats([i \in 1..Len(file[1]) |-> col_name(i)])
    /\ data_rows_processed' = 0
    /\ pc' = "loop"
    /\ UNCHANGED <<manifest_vars, col, fed, arg, res, file, header_decision, limit_rows, dispatched,
                   call_vars>>

\* next(reader) raises StopIteration: RuntimeError("Empty CSV; ...")
EmptyCSV ==
    /\ pc = "open" /\ file = << >>
    /\ pc' = "error"
    /\ exc' = raised("RuntimeError")
    /\ UNCHANGED <<manifest_vars, col, fed, arg, res, file, header_decision, limit_rows, pos, columns,
                   stats, data_rows_processed, dispatched, arg_vars, detect_vars, f,
                   full_reads>>

\* one iteration of "for row in reader"; stats[i] with i past the end of stats
\* raises IndexError, which leaves the function as RuntimeError; a break on the
\* last row of the file ends a read of the whole file
ProcessRow ==
    /\ pc = "loop" /\ pos < Len(file)
    /\ LET row == pad_or_trim(file[pos + 1], Len(columns))
       IN  IF Len(row) > Len(stats)
           THEN /\ pc' = "error"
                /\ exc' = raised("IndexError")
                /\ stats' = [i \in 1..Len(stats) |-> update(stats[i], row[i])]
                /\ UNCHANGED <<data_rows_processed, full_reads>>
           ELSE /\ stats' = dispatch(stats, row)
                /\ UNCHANGED exc
                /\ full_reads' = IF /\ limit_reached(limit_rows, data_rows_processed + 1)
                                    /\ pos + 1 = Len(file)
                                 THEN full_reads + 1 ELSE full_reads
                /\ data_rows_processed' = data_rows_processed + 1
                /\ pc' = IF limit_reached(limit_rows, data_rows_processed + 1)
                         THEN "done" ELSE "loop"
    /\ pos' = pos + 1
    /\ dispatched' = Append(dispatched, pos + 1)
    /\ UNCHANGED <<manifest_vars, col, fed, arg, res, file, header_decision, limit_rows, columns,
                   arg_vars, detect_vars, f>>

\* the reader is exhausted, the file has been read to its end:
\* return columns, stats, {"rows_read": data_rows_processed}
Finish ==
    /\ pc = "loop" /\ pos = Len(file)
    /\ pc' = "done"
    /\ full_reads' = full_reads + 1
    /\ UNCHANGED <<manifest_vars, col, fed, arg, res, file, header_decision, limit_rows, pos, columns,
                   stats, data_rows_processed, dispatched, arg_vars, detect_vars, f, exc>>

NextScan == HeaderPresent \/ HeaderAbsent \/ EmptyCSV \/ ProcessRow \/ Finish

SpecScan == InitScan /\ [][NextScan]_vars

----------------------------------------------------------------------------
(* The steps of stream_profile_csv around the scan *)

\* "utf-8"
UTF8 == <<"u", "t", "f", "-", "8">>

\* the encoding chardet reports when it reports one
CHARDET_ENCODING == <<"U", "T", "F", "-", "8", "-", "S", "I", "G">>

\* the codecs Python knows, of those that occur here
CODECS == { UTF8, lower(CHARDET_ENCODING), <<"l", "a", "t", "i", "n", "-", "1">> }

\* Python's "x or y" on Optional[str]: None and "" are false
or_else(x, y) == IF x # None /\ x # << >> THEN x ELSE y

\* detect_encoding, given what chardet.detect did: raised, reported no encoding,
\* or reported CHARDET_ENCODING
detect_encoding(chardet) ==
    IF chardet = "raises" THEN UTF8
    ELSE lower(or_else(IF chardet = "none" THEN None ELSE CHARDET_ENCODING, UTF8))

QUOTE_MINIMAL == 0

\* the fallback dialect _D
fallback_dialect ==
    [ delimiter |-> <<",">>, quotechar |-> <<"\"">>, doublequote |-> TRUE,
      skipinitialspace |-> FALSE, lineterminator |-> <<"\n">>, quoting |-> QUOTE_MINIMAL ]

\* the dialect the Sniffer reports when it reports one
sniffed_dialect ==
    [ delimiter |-> <<";">>, quotechar |-> <<"'">>, doublequote |-> FALSE,
      skipinitialspace |-> TRUE, lineterminator |-> <<"\r", "\n">>, quoting |-> QUOTE_MINIMAL ]

\* detect_dialect without its except clause's dialect
detect_dialect_without_fallback(encoding_, sniff) == sniffed_dialect

\* detect_dialect, given the encoding and what Sniffer.sniff did; decoding the
\* sample with an unknown codec raises LookupError
detect_dialect(encoding_, sniff) ==
    IF encoding_ \notin CODECS \/ sniff = "raises" THEN fallback_dialect ELSE sniffed_dialect

\* if delimiter: dialect.delimiter = delimiter
force_delimiter(d, delim) ==
    IF delim # None /\ delim # << >> THEN [d EXCEPT !.delimiter = delim] ELSE d

\* h.hexdigest() of the bytes read
hexdigest(data) == <<"md5">> \o data

\* md5sum, given whether reading the file raised
md5sum(data, read) == IF read = "raises" THEN << >> ELSE hexdigest(data)

\* the threshold met only when passed
looks_like_data_row_strict(typed_cells, total_cells) ==
    total_cells > 0 /\ 4 * typed_cells > 3 * total_cells

\* ratio >= typed_threshold, the ratio being 0.0 without cells and the threshold 0.75
looks_like_data_row(typed_cells, total_cells) ==
    total_cells > 0 /\ 4 * typed_cells >= 3 * total_cells

\* the first-row cells that are not blank, stripped
non_empty_cells(row) == SelectSeq([i \in 1..Len(row) |-> strip(row[i])], LAMBDA v : v # << >>)

\* is_typed with the numeric tests only
is_typed_numbers_only(value) == is_int(value) \/ is_float(value)

is_typed(value) == is_int(value) \/ is_float(value) \/ is_bool(value) \/ is_datetime(value)

typed_cells_of(row) == Len(SelectSeq(non_empty_cells(row), is_typed))

\* sniffed_header: True unless has_header ran on a sample that is not blank and
\* answered
sniffed_header(sample, has_header) ==
    IF sample = "text" /\ has_header # "raises" THEN has_header = "header" ELSE TRUE

\* detect_header_mode, given what reading the sample did ("text", "blank",
\* "raises"), what Sniffer.has_header did ("header", "no header", "raises"),
\* whether reading the first rows raised, and the rows of the file
detect_header_mode(sample, has_header, first_rows, rows) ==
    IF first_rows = "raises" THEN sniffed_header(sample, has_header)
    ELSE IF rows = << >> THEN FALSE
    ELSE IF looks_like_data_row(typed_cells_of(rows[1]), Len(non_empty_cells(rows[1])))
         THEN FALSE
    ELSE sniffed_header(sample, has_header)

\* no except clause: the exception leaves as it was raised
handled_not_at_all(e) == e

\* the except clauses of stream_profile_csv (lines 812-815)
handled(e) ==
    IF e.kind = "UnicodeDecodeError"
    THEN exception("ValueError", <<"Error decoding file with encoding">> \o e.message)
    ELSE exception("RuntimeError", <<"Error processing CSV file">> \o e.message)

\* a handle that only a return closes
with_exit_on_return(handle, leaving) ==
    IF handle = "open" /\ leaving = "return" THEN "closed" ELSE handle

\* leaving the with block, by a return or by an exception, closes the handle
with_exit(handle, leaving) == IF handle = "open" THEN "closed" ELSE handle

\* the values of the header argument that are strings
HEADER_STRINGS ==
    { <<"a", "u", "t", "o">>, <<"P", "r", "e", "s", "e", "n", "t">>, <<"n", "o">>,
      <<"m", "a", "y", "b", "e">> }

\* header: Union[bool, str]
HEADERS == { [str |-> s] : s \in HEADER_STRINGS } \cup { [bool |-> b] : b \in BOOLEAN }

AUTO == <<"a", "u", "t", "o">>

PRESENT_KEYS == { <<"p", "r", "e", "s", "e", "n", "t">>, <<"t", "r", "u", "e">>, <<"y", "e", "s">> }

ABSENT_KEYS == { <<"a", "b", "s", "e", "n", "t">>, <<"f", "a", "l", "s", "e">>, <<"n", "o">> }

\* isinstance(header, str)
is_str(h) == "str" \in DOMAIN h

\* the header mode of lines 750-761: "auto", "present", "absent" or "invalid"
header_mode(h) ==
    IF is_str(h)
    THEN LET header_key == lower(h.str)
         IN  IF header_key = AUTO THEN "auto"
             ELSE IF header_key \in PRESENT_KEYS THEN "present"
             ELSE IF header_key \in ABSENT_KEYS THEN "absent"
             ELSE "invalid"
    ELSE IF h.bool THEN "present" ELSE "absent"

\* every cell of every row is blank and no row has a delimiter
blank_text(rows) ==
    \A i \in 1..Len(rows) : Len(rows[i]) <= 1 /\ \A j \in 1..Len(rows[i]) : strip(rows[i][j]) = << >>

\* what f.read(sample_bytes) of detect_header_mode can give for a file of these rows
SAMPLES(rows) ==
    {"raises"} \cup (IF rows = << >> THEN {"blank"}
                     ELSE IF blank_text(rows) THEN {"blank", "text"} ELSE {"text"})

----------------------------------------------------------------------------
(* SpecCall: one call of stream_profile_csv from validation to its exit *)

\* the exceptions a read of the open file raises
READ_ERRORS == {"csv.Error", "UnicodeDecodeError", "OSError"}

\* the bytes of a byte order mark
BOM == <<239, 187, 191>>

\* bytes of the rows written with one-byte delimiters and line ends
RECURSIVE cells_size(_)
cells_size(row) == IF row = << >> THEN 0 ELSE Len(Head(row)) + 1 + cells_size(Tail(row))

RECURSIVE rows_size(_)
rows_size(rows) ==
    IF rows = << >> THEN 0 ELSE max(1, cells_size(Head(rows))) + rows_size(Tail(rows))

\* files of 1..n rows "1"
files_of_ones(n) == { [i \in 1..k |-> << <<"1">> >>] : k \in 1..n }

LATIN1 == <<"l", "a", "t", "i", "n", "-", "1">>

UTF8_SIG == <<"u", "t", "f", "-", "8", "-", "s", "i", "g">>

\* no step has run yet
pending == [ chardet |-> "pending", sniff |-> "pending", md5 |-> "pending",
             sample |-> "pending", has_header |-> "pending", first_rows |-> "pending" ]

\* the scan variables before the file is open
scan_not_started ==
    /\ header_decision = FALSE /\ pos = 0 /\ columns = << >> /\ stats = << >>
    /\ data_rows_processed = 0 /\ dispatched = << >>

\* a missing path; a file of zero bytes; a file that holds a byte order mark only,
\* read as utf-8-sig; files of rows
InitCall ==
    /\ \/ path = [exists |-> FALSE, st_size |-> 0] /\ file = << >>
          /\ encoding \in {None, LATIN1}
       \/ path = [exists |-> TRUE, st_size |-> 0] /\ file = << >>
          /\ encoding \in {None, LATIN1}
       \/ path = [exists |-> TRUE, st_size |-> Len(BOM)] /\ file = << >>
          /\ encoding = UTF8_SIG
       \/ \E rows \in files_of_ones(MaxFileRows) :
             /\ path = [exists |-> TRUE, st_size |-> rows_size(rows)] /\ file = rows
             /\ encoding \in {None, LATIN1, <<"x">>}
    /\ delimiter \in {None, <<"\t">>}
    /\ header \in HEADERS
    /\ limit_rows \in {NoLimit, <<1>>}
    /\ compute_md5 \in BOOLEAN
    /\ outcome = pending
    /\ enc = Idle /\ dialect = Idle /\ file_md5 = Idle
    /\ f = "unopened" /\ exc = NoException /\ full_reads = 0
    /\ scan_not_started
    /\ pc = "validate"
    /\ col = Idle /\ fed = Idle /\ arg = Idle /\ res = Idle
    /\ IdleManifest

scan_vars == <<file, header_decision, limit_rows, pos, columns, stats,
               data_rows_processed, dispatched>>

column_vars == <<col, fed, arg, res>>

\* validation that lets a file of zero bytes through
Validate_without_size_check ==
    /\ pc = "validate"
    /\ IF ~path.exists THEN exc' = raised("FileNotFoundError") /\ pc' = "raised"
       ELSE exc' = exc /\ pc' = "detect_encoding"
    /\ UNCHANGED <<manifest_vars, column_vars, scan_vars, arg_vars, detect_vars, f, full_reads>>

\* lines 723-727
Validate ==
    /\ pc = "validate"
    /\ IF ~path.exists THEN exc' = raised("FileNotFoundError") /\ pc' = "raised"
       ELSE IF path.st_size = 0 THEN exc' = raised("ValueError") /\ pc' = "raised"
       ELSE exc' = exc /\ pc' = "detect_encoding"
    /\ UNCHANGED <<manifest_vars, column_vars, scan_vars, arg_vars, detect_vars, f, full_reads>>

\* line 729: enc = encoding or detect_encoding(path)
DetectEncoding ==
    /\ pc = "detect_encoding"
    /\ IF or_else(encoding, None) # None
       THEN enc' = encoding /\ outcome' = [outcome EXCEPT !.chardet = "skipped"]
       ELSE \E chardet \in {"raises", "none", "ok"} :
                /\ enc' = detect_encoding(chardet)
                /\ outcome' = [outcome EXCEPT !.chardet = chardet]
    /\ pc' = "detect_dialect"
    /\ UNCHANGED <<manifest_vars, column_vars, scan_vars, arg_vars, dialect, file_md5, f, exc, full_reads>>

\* lines 730-734
DetectDialect ==
    /\ pc = "detect_dialect"
    /\ \E sniff \in {"raises", "ok"} :
          /\ dialect' = force_delimiter(detect_dialect(enc, sniff), delimiter)
          /\ outcome' = [outcome EXCEPT !.sniff = IF enc \in CODECS THEN sniff ELSE "raises"]
    /\ pc' = "md5"
    /\ UNCHANGED <<manifest_vars, column_vars, scan_vars, arg_vars, enc, file_md5, f, exc, full_reads>>

\* the checksum computed whatever compute_md5 says
Md5_whatever_the_flag ==
    /\ pc = "md5"
    /\ \E read \in {"raises", "ok"} :
          /\ file_md5' = md5sum(file, read)
          /\ outcome' = [outcome EXCEPT !.md5 = read]
          /\ full_reads' = IF read = "ok" THEN full_reads + 1 ELSE full_reads
    /\ pc' = "open_file"
    /\ UNCHANGED <<manifest_vars, column_vars, scan_vars, arg_vars, enc, dialect, f, exc>>

\* lines 736-740; md5sum reads the file to its end unless a read raises
Md5 ==
    /\ pc = "md5"
    /\ IF compute_md5
       THEN \E read \in {"raises", "ok"} :
                /\ file_md5' = md5sum(file, read)
                /\ outcome' = [outcome EXCEPT !.md5 = read]
                /\ full_reads' = IF read = "ok" THEN full_reads + 1 ELSE full_reads
       ELSE /\ file_md5' = None
            /\ outcome' = [outcome EXCEPT !.md5 = "skipped"]
            /\ UNCHANGED full_reads
    /\ pc' = "open_file"
    /\ UNCHANGED <<manifest_vars, column_vars, scan_vars, arg_vars, enc, dialect, f, exc>>

\* line 744: path.open raises LookupError for an unknown codec, or OSError
OpenFile ==
    /\ pc = "open_file"
    /\ IF enc \notin CODECS
       THEN exc' = raised("LookupError") /\ pc' = "error" /\ UNCHANGED f
       ELSE \E opened \in BOOLEAN :
                IF opened THEN f' = "open" /\ pc' = "header_mode" /\ UNCHANGED exc
                ELSE exc' = raised("OSError") /\ pc' = "error" /\ UNCHANGED f
    /\ UNCHANGED <<manifest_vars, column_vars, scan_vars, arg_vars, detect_vars, full_reads>>

\* lines 748-765: the header argument is read, and in auto mode detect_header_mode runs
ParseHeaderMode ==
    /\ pc = "header_mode"
    /\ LET mode == header_mode(header)
       IN  IF mode = "invalid"
           THEN /\ exc' = raised("ValueError") /\ pc' = "error"
                /\ UNCHANGED <<header_decision, outcome>>
           ELSE IF mode = "auto"
           THEN \E sample \in SAMPLES(file), has_header \in {"header", "no header", "raises"},
                   first_rows \in {"ok", "raises"} :
                    /\ header_decision' = detect_header_mode(sample, has_header, first_rows, file)
                    /\ outcome' = [outcome EXCEPT
                                      !.sample = sample,
                                      !.has_header = IF sample = "text" THEN has_header
                                                     ELSE "skipped",
                                      !.first_rows = first_rows]
                    /\ pc' = "open" /\ UNCHANGED exc
           ELSE /\ header_decision' = (mode = "present")
                /\ pc' = "open" /\ UNCHANGED <<exc, outcome>>
    /\ UNCHANGED <<manifest_vars, column_vars, file, limit_rows, pos, columns, stats, data_rows_processed,
                   dispatched, arg_vars, enc, dialect, file_md5, f, full_reads>>

\* next(reader) raises something other than StopIteration
ReaderRaises ==
    /\ pc \in {"open", "loop"}
    /\ \E kind \in READ_ERRORS : exc' = raised(kind)
    /\ pc' = "error"
    /\ UNCHANGED <<manifest_vars, column_vars, scan_vars, arg_vars, detect_vars, f, full_reads>>

\* line 810: the return leaves the with block
Return ==
    /\ pc = "done"
    /\ f' = with_exit(f, "return")
    /\ pc' = "returned"
    /\ UNCHANGED <<manifest_vars, column_vars, scan_vars, arg_vars, detect_vars, exc, full_reads>>

\* an exception leaves the with block and meets the except clauses of lines 812-815
Except ==
    /\ pc = "error"
    /\ f' = with_exit(f, "exception")
    /\ exc' = handled(exc)
    /\ pc' = "raised"
    /\ UNCHANGED <<manifest_vars, column_vars, scan_vars, arg_vars, detect_vars, full_reads>>

NextCall ==
    \/ Validate \/ DetectEncoding \/ DetectDialect \/ Md5 \/ OpenFile \/ ParseHeaderMode
    \/ HeaderPresent \/ HeaderAbsent \/ EmptyCSV \/ ProcessRow \/ Finish \/ ReaderRaises
    \/ Return \/ Except

SpecCall == InitCall /\ [][NextCall]_vars

----------------------------------------------------------------------------
(* SpecHeader: a scan in auto header mode *)

\* cells of a first row
MaxHeaderCells == 4

\* "", "1", "1.5", "2020-01-15", "abc"
HEADER_CELLS ==
    { << >>, <<"1">>, <<"1", ".", "5">>,
      <<"2", "0", "2", "0", "-", "0", "1", "-", "1", "5">>, <<"a", "b", "c">> }

HEADER_ROWS == seqs_upto(HEADER_CELLS, MaxHeaderCells)

\* the file of test_header_auto_detection_on_dataverse_tab
DATAVERSE_TAB ==
    << << <<"1">>, <<"2", "0", "2", "0", "-", "0", "1", "-", "1", "5">>,
          <<"9", "5", ".", "5">>, <<"J", "o", "h", "n", " ", "D", "o", "e">> >>,
       << <<"2">>, <<"2", "0", "2", "1", "-", "0", "3", "-", "2", "2">>,
          <<"8", "8", ".", "2">>, <<"J", "a", "n", "e", " ", "S", "m", "i", "t", "h">> >> >>

\* a file that holds a byte order mark only, found to be utf-8-sig and so without
\* any row, or a file of one row for which chardet reports no encoding, or the
\* two-row Dataverse file read with delimiter="\t"; the Sniffer found a dialect
\* and no checksum was asked for
InitHeader ==
    /\ \/ /\ file = << >> /\ path = [exists |-> TRUE, st_size |-> Len(BOM)]
          /\ enc = detect_encoding("ok")
          /\ outcome = [pending EXCEPT !.chardet = "ok", !.sniff = "ok", !.md5 = "skipped"]
          /\ delimiter = None
       \/ \E row \in HEADER_ROWS :
             /\ file = <<row>> /\ path = [exists |-> TRUE, st_size |-> rows_size(<<row>>)]
             /\ enc = detect_encoding("none")
             /\ outcome = [pending EXCEPT !.chardet = "none", !.sniff = "ok",
                                          !.md5 = "skipped"]
             /\ delimiter = None
       \/ /\ file = DATAVERSE_TAB
          /\ path = [exists |-> TRUE, st_size |-> rows_size(DATAVERSE_TAB)]
          /\ enc = detect_encoding("none")
          /\ outcome = [pending EXCEPT !.chardet = "none", !.sniff = "ok", !.md5 = "skipped"]
          /\ delimiter = <<"\t">>
    /\ header = [str |-> AUTO]
    /\ encoding = None /\ limit_rows = NoLimit /\ compute_md5 = FALSE
    /\ dialect = force_delimiter(sniffed_dialect, delimiter) /\ file_md5 = None
    /\ f = "open" /\ exc = NoException /\ full_reads = 0
    /\ scan_not_started
    /\ pc = "header_mode"
    /\ col = Idle /\ fed = Idle /\ arg = Idle /\ res = Idle
    /\ IdleManifest

NextHeader ==
    ParseHeaderMode \/ HeaderPresent \/ HeaderAbsent \/ EmptyCSV \/ ProcessRow \/ Finish

SpecHeader == InitHeader /\ [][NextHeader]_vars

----------------------------------------------------------------------------
(* Vocabulary of the properties *)

FLAG_NAMES == {"could_be_int", "could_be_float", "could_be_bool", "could_be_datetime"}

DATATYPES == {"integer", "decimal", "boolean", "dateTime", "string"}

\* how often update was called with raw
fed_count(raw) == fed[CHOOSE i \in InputIds : INPUTS[i] = raw]

\* the inputs update was called with at least once, and those that are tokens
FedIds == {i \in InputIds : fed[i] > 0}

FedTokenIds == {i \in FedIds : INPUTS[i] # None}

\* the update calls were exactly these (a sequence of <<raw, times>>)
fed_exactly(calls) ==
    /\ \A j \in 1..Len(calls) : fed_count(calls[j][1]) = calls[j][2]
    /\ \A i \in FedIds : \E j \in 1..Len(calls) : calls[j][1] = INPUTS[i]

\* the Missing-Value Token Set as the specification lists it
MISSING_LITERALS ==
    { << >>, <<"n", "a">>, <<"N", "A">>, <<"n", "/", "a">>, <<"N", "/", "A">>,
      <<"n", "u", "l", "l">>, <<"N", "U", "L", "L">>, <<"n", "o", "n", "e">>,
      <<"N", "o", "n", "e">>, <<"n", "a", "n">>, <<"N", "a", "N">> }

matches_missing(raw) == strip(raw) \in MISSING_LITERALS

\* the accumulator after the calls of a bag, made in the order of INPUTS
RECURSIVE feed_times(_, _, _)
feed_times(c, raw, n) == IF n = 0 THEN c ELSE feed_times(update(c, raw), raw, n - 1)

RECURSIVE fed_in_listed_order(_, _)
fed_in_listed_order(bag, i) ==
    IF i = 0 THEN ColumnStats(<<"c">>)
    ELSE feed_times(fed_in_listed_order(bag, i - 1), INPUTS[i], bag[i])

----------------------------------------------------------------------------
(* C1 *)

\* C1: the four could_be_* flags are all true before the first update, and no
\* update call turns a flag from false to true.
C1_FlagsOnlyNarrow ==
    [][ /\ bag_size(fed) = 0 => \A fl \in FLAG_NAMES : col[fl]
        /\ \A fl \in FLAG_NAMES : col'[fl] => col[fl] ]_vars

\* a flag was knocked out and tokens that satisfy its predicate were fed as well
C1_Witness ==
    /\ ~col.could_be_int /\ ~col.could_be_bool
    /\ fed_count(<<"a", "b", "c">>) > 0 /\ fed_count(<<"1">>) > 0
    /\ fed_count(None) > 0

(* C2 *)

\* the datatype the specification prescribes
expected_datatype(c) ==
    IF c.n_non_missing = 0 THEN "string"
    ELSE CASE c.could_be_int -> "integer"
           [] ~c.could_be_int /\ c.could_be_float -> "decimal"
           [] ~c.could_be_int /\ ~c.could_be_float /\ c.could_be_bool -> "boolean"
           [] ~c.could_be_int /\ ~c.could_be_float /\ ~c.could_be_bool
                /\ c.could_be_datetime -> "dateTime"
           [] OTHER -> "string"

\* C2: resolve_datatype returns one of the five datatypes: the first surviving flag
\* in the order int, float, bool, datetime when n_non_missing > 0, and string when
\* no flag survives or n_non_missing = 0, in both source files.
C2_DatatypePriority ==
    res # Idle =>
        /\ res.datatype \in DATATYPES
        /\ res.datatype = expected_datatype(arg)
        /\ res.datatype_name = expected_datatype(arg)

\* an empty column whose flags are all still true resolves to string
C2_Witness ==
    /\ res # Idle /\ arg.n_non_missing = 0
    /\ arg.could_be_int /\ arg.could_be_float /\ arg.could_be_bool /\ arg.could_be_datetime
    /\ res.datatype = "string"

(* C3 *)

\* C3: when at least one non-missing token was fed and every non-missing token
\* satisfies is_int, the datatype is integer, whatever else the tokens satisfy.
C3_AllIntIsInteger ==
    LET non_missing == {i \in FedTokenIds : ~matches_missing(INPUTS[i])}
    IN  (non_missing # {} /\ \A i \in non_missing : is_int(INPUTS[i]))
            => xsd_datatype(col) = "integer"

\* a column of only "0" and "1": integer, boolean candidacy alive too
C3_Witness ==
    /\ fed_exactly(<< <<<<"0">>, 2>>, <<<<"1">>, 2>> >>)
    /\ col.could_be_bool
    /\ xsd_datatype(col) = "integer"

(* C4 *)

\* C4 as stated: at least one float-only token and otherwise only tokens that
\* satisfy is_int or is_float give decimal.
C4_Original ==
    (/\ fed_count(None) = 0
     /\ \E i \in FedTokenIds : is_float(INPUTS[i])
     /\ \A i \in FedTokenIds : is_int(INPUTS[i]) \/ is_float(INPUTS[i]))
        => xsd_datatype(col) = "decimal"

\* C4 amended: at least one float-only token that is not a missing-value literal,
\* and otherwise only tokens that satisfy is_int or is_float, give decimal.
C4_FloatOnlyIsDecimal ==
    (/\ fed_count(None) = 0
     /\ \E i \in FedTokenIds : is_float(INPUTS[i]) /\ ~matches_missing(INPUTS[i])
     /\ \A i \in FedTokenIds : is_int(INPUTS[i]) \/ is_float(INPUTS[i]))
        => xsd_datatype(col) = "decimal"

\* "1.5" among integers and the missing-value literal "nan"
C4_Witness ==
    /\ fed_exactly(<< <<<<"1", ".", "5">>, 1>>, <<<<"1">>, 2>>, <<<<"n", "a", "n">>, 1>> >>)
    /\ xsd_datatype(col) = "decimal"

(* C5 *)

\* the role the specification prescribes, first match wins
expected_role(n, distinct, dt) ==
    CASE n = 0 -> "attribute"
      [] n > 0 /\ 100 * distinct >= 95 * n /\ n >= 50 -> "identifier"
      [] n > 0 /\ ~(100 * distinct >= 95 * n /\ n >= 50)
           /\ dt \in {"integer", "decimal"} /\ 100 * distinct < 95 * n -> "measure"
      [] n > 0 /\ ~(100 * distinct >= 95 * n /\ n >= 50)
           /\ ~(dt \in {"integer", "decimal"} /\ 100 * distinct < 95 * n)
           /\ (dt = "boolean" \/ (distinct <= 50 /\ 10 * distinct <= n)) -> "dimension"
      [] OTHER -> "attribute"

\* C5: resolve_role returns the first matching rule of attribute (empty),
\* identifier, measure, dimension, attribute; 100 numeric rows with 96 distinct
\* values are an identifier, 49 rows with 49 distinct values are not.
C5_RoleFirstMatch ==
    res # Idle =>
        /\ res.role = expected_role(arg.n_non_missing, res.distinct, res.datatype)
        /\ (arg.n_non_missing = 100 /\ Cardinality(DOMAIN arg.hll) = 96
              /\ res.datatype \in {"integer", "decimal"}) => res.role = "identifier"
        /\ (arg.n_non_missing = 49 /\ Cardinality(DOMAIN arg.hll) = 49)
              => res.role # "identifier"

\* the numeric column of 100 rows and 96 distinct values
C5_Witness ==
    /\ res # Idle /\ arg.n_non_missing = 100 /\ Cardinality(DOMAIN arg.hll) = 96
    /\ res.datatype = "integer" /\ res.role = "identifier"

(* C6 *)

\* C6: an update with a token whose trimmed value is a missing-value literal adds
\* one to n_rows and changes nothing else; an update with any other token also adds
\* one to n_non_missing and feeds the trimmed token to the estimator. The rows
\* NA, null, "", 1, 2 leave n_non_missing = 2 and the datatype integer.
C6_MissingTokensOnlyCountRows ==
    [][ /\ \A i \in InputIds :
             (fed'[i] = fed[i] + 1 /\ INPUTS[i] # None) =>
                 IF matches_missing(INPUTS[i])
                 THEN col' = [col EXCEPT !.n_rows = @ + 1]
                 ELSE /\ col'.n_rows = col.n_rows + 1
                      /\ col'.n_non_missing = col.n_non_missing + 1
                      /\ col'.hll = hll_update(col.hll, utf8_encode(strip(INPUTS[i])))
        /\ fed_exactly(<< <<<<"N", "A">>, 1>>, <<<<"n", "u", "l", "l">>, 1>>, <<<< >>, 1>>,
                          <<<<"1">>, 1>>, <<<<"2">>, 1>> >>)'
             => (col'.n_non_missing = 2 /\ xsd_datatype(col') = "integer") ]_vars

\* the rows NA, null, "", 1, 2 were fed
C6_Witness ==
    /\ fed_exactly(<< <<<<"N", "A">>, 1>>, <<<<"n", "u", "l", "l">>, 1>>, <<<< >>, 1>>,
                      <<<<"1">>, 1>>, <<<<"2">>, 1>> >>)
    /\ col.n_rows = 5 /\ col.n_non_missing = 2

(* C7 *)

\* C7: n_non_missing never exceeds n_rows.
C7_NonMissingAtMostRows == col.n_non_missing <= col.n_rows

\* missing and non-missing tokens and None were all fed
C7_Witness ==
    /\ col.n_non_missing > 0 /\ col.n_non_missing < col.n_rows
    /\ fed_count(None) > 0 /\ fed_count(<< >>) > 0

(* C8 *)

\* C8 as stated: n_non_missing = n_rows exactly when no supplied token matched the
\* Missing-Value Token Set, calls with None included.
C8_Original ==
    (col.n_non_missing = col.n_rows)
        <=> (\A i \in FedTokenIds : ~matches_missing(INPUTS[i]))

\* C8 amended: n_non_missing = n_rows exactly when no call was made with None and
\* no supplied token matched the Missing-Value Token Set.
C8_EqualIffNothingSkipped ==
    (col.n_non_missing = col.n_rows)
        <=> (fed_count(None) = 0 /\ \A i \in FedTokenIds : ~matches_missing(INPUTS[i]))

\* None was passed among tokens none of which is a missing-value literal
C8_Witness ==
    /\ fed_count(None) > 0
    /\ FedTokenIds # {} /\ \A i \in FedTokenIds : ~matches_missing(INPUTS[i])
    /\ col.n_non_missing < col.n_rows

(* C9 *)

\* C9: the accumulator reached by any order of the update calls is the one reached
\* by the same calls made in the order of INPUTS: the flags, n_rows, n_non_missing,
\* the datatype and the distinct estimate depend on the multiset of tokens alone.
C9_OrderIndependent ==
    LET a == fed_in_listed_order(fed, Len(INPUTS))
    IN  /\ col = a
        /\ xsd_datatype(col) = xsd_datatype(a)
        /\ approx_distinct(col) = approx_distinct(a)

\* "19" and "147" share a register of the estimator; both were fed among tokens
\* that knock out different flags
C9_Witness ==
    /\ fed_count(<<"1", "9">>) > 0 /\ fed_count(<<"1", "4", "7">>) > 0
    /\ fed_count(<<"Y">>) > 0 /\ fed_count(<<"1", ".", "5">>) > 0
    /\ approx_distinct(col) = 3

(* C10 *)

\* C10: every row the scan reads makes exactly one update call on every column
\* accumulator, with the row's cell at that position or with "" where the row is
\* short, cells past the column count being dropped; reading a row never raises;
\* the number of accumulators stays that of the columns; and when the scan returns
\* every accumulator's n_rows equals rows_read.
C10_OneUpdatePerColumnPerRow ==
    [][ /\ (pc = "loop" /\ pos' = pos + 1) =>
              /\ pc' # "error"
              /\ data_rows_processed' = data_rows_processed + 1
              /\ \A i \in 1..Len(stats) :
                    /\ stats'[i] = update(stats[i], IF i <= Len(file[pos + 1])
                                                    THEN file[pos + 1][i] ELSE << >>)
                    /\ stats'[i].n_rows = stats[i].n_rows + 1
        /\ pc = "loop" => (Len(stats') = Len(stats) /\ Len(stats) = Len(columns))
        /\ pc' = "done" => \A i \in 1..Len(stats') : stats'[i].n_rows = data_rows_processed'
      ]_vars

\* a scan of two data rows that returned, the second row shorter than the columns
C10_Witness ==
    /\ pc = "done" /\ Len(file) = 2 /\ Len(columns) = 2 /\ Len(file[2]) < 2
    /\ data_rows_processed = 2
    /\ stats[2].n_rows = 2 /\ stats[2].n_non_missing = 1

----------------------------------------------------------------------------
(* Claims on the scan *)

\* the rows of the file that are data: all of them, less the header row if there is one
data_rows_in_file == IF header_decision /\ file # << >> THEN Len(file) - 1 ELSE Len(file)

\* C11: with a row limit L >= 1 the running counter never passes L, the scan leaves
\* the row loop by returning (never by an error) at the moment the counter reaches
\* L, no row is dispatched after the L-th, and a scan that returned reports
\* rows_read = min(L, number of data rows in the file).
C11_LimitStopsScan ==
    (limit_rows # NoLimit /\ limit_rows[1] >= 1 /\ pc \in {"open", "loop", "done", "error"}) =>
        /\ data_rows_processed <= limit_rows[1]
        /\ Len(dispatched) <= limit_rows[1]
        /\ data_rows_processed = limit_rows[1] => pc = "done"
        /\ pc = "done" => data_rows_processed = min(limit_rows[1], data_rows_in_file)

\* a scan with limit 1 of a file of two data rows that returned after the first
C11_Witness ==
    /\ pc = "done" /\ limit_rows = <<1>> /\ data_rows_in_file = 2
    /\ data_rows_processed = 1 /\ dispatched = <<1>>

\* how often file row k was dispatched to the accumulators
times_dispatched(k) == Cardinality({ j \in 1..Len(dispatched) : dispatched[j] = k })

\* the row limit cannot end the scan before the last data row
limit_covers_file == ~truthy(limit_rows) \/ limit_rows[1] >= data_rows_in_file

\* C12: after header handling with the header forced present the column names are
\* the first row, which is never dispatched, and a scan that is not cut short by a
\* row limit returns rows_read = rows - 1; with the header forced absent the names
\* are col_1..col_n for the n cells of the first row, the reader restarts at the
\* first row, which is the first row dispatched and dispatched once only, and such
\* a scan returns rows_read = rows.
C12_HeaderRowHandling ==
    pc \in {"loop", "done"} =>
        IF header_decision
        THEN /\ columns = file[1]
             /\ times_dispatched(1) = 0
             /\ dispatched = << >> => pos = 1
             /\ (pc = "done" /\ limit_covers_file) => data_rows_processed = Len(file) - 1
        ELSE /\ columns = [i \in 1..Len(file[1]) |-> col_name(i)]
             /\ dispatched = << >> => pos = 0
             /\ dispatched # << >> => (dispatched[1] = 1 /\ times_dispatched(1) = 1)
             /\ (pc = "done" /\ limit_covers_file) =>
                    (data_rows_processed = Len(file) /\ times_dispatched(1) = 1)

\* a headerless file of two rows of two cells scanned to its end
C12_Witness ==
    /\ pc = "done" /\ ~header_decision /\ Len(file) = 2 /\ Len(file[1]) = 2
    /\ columns = <<col_name(1), col_name(2)>>
    /\ dispatched = <<1, 2>> /\ data_rows_processed = 2

\* C13: when the header is present, the column name list the scan returns has no
\* blank name and equals, position by position, the name held by the accumulator
\* of that column.
C13_ReturnedNamesResolved ==
    (pc = "done" /\ header_decision) =>
        /\ Len(columns) = Len(stats)
        /\ \A i \in 1..Len(columns) :
              /\ strip(columns[i]) # << >>
              /\ columns[i] = stats[i].name

----------------------------------------------------------------------------
(* Claims on header detection *)

\* positions of the first row whose cell is not blank, and those of them whose
\* stripped cell is an int, a float, a bool or a datetime
first_row_cells == { i \in 1..Len(file[1]) : strip(file[1][i]) # << >> }

first_row_typed ==
    { i \in first_row_cells :
        LET v == strip(file[1][i]) IN is_int(v) \/ is_float(v) \/ is_bool(v) \/ is_datetime(v) }

\* at least 0.75 of the non-empty cells of the first row are typed
typed_ratio_met ==
    /\ file # << >> /\ first_row_cells # {}
    /\ 4 * Cardinality(first_row_typed) >= 3 * Cardinality(first_row_cells)

\* the answer of the generic heuristic, header present when the sample is empty
\* or the heuristic raised
heuristic_answer ==
    IF outcome.sample = "text" /\ outcome.has_header # "raises"
    THEN outcome.has_header = "header" ELSE TRUE

\* the first row has four non-empty cells of which exactly three are typed
three_of_four_typed ==
    /\ file # << >> /\ Len(file[1]) = 4
    /\ Cardinality(first_row_cells) = 4 /\ Cardinality(first_row_typed) = 3

\* C14 as stated: in auto mode the header is absent when the typed ratio of the
\* first row is at least 0.75 and otherwise the decision is the heuristic's
\* answer, header present when the heuristic cannot be computed; three typed
\* cells of four give header absent and the columns col_1..col_4.
C14_Original ==
    /\ pc # "header_mode" =>
          header_decision = (IF typed_ratio_met THEN FALSE ELSE heuristic_answer)
    /\ (pc \in {"loop", "done"} /\ three_of_four_typed) =>
          columns = [i \in 1..4 |-> col_name(i)]

\* C14: in auto mode, when header detection reads a first row, the header is
\* absent if the typed ratio of that row is at least 0.75 and otherwise the
\* decision is the heuristic's answer, header present when the heuristic cannot
\* be computed; when the file yields no row the decision is header absent; when
\* reading the first rows fails the decision is the heuristic's answer. Three
\* typed cells of four, read by the detection, give header absent and the
\* columns col_1..col_4.
C14_AutoHeaderDecision ==
    /\ pc # "header_mode" =>
          header_decision =
              (IF outcome.first_rows = "raises" THEN heuristic_answer
               ELSE IF file = << >> THEN FALSE
               ELSE IF typed_ratio_met THEN FALSE
               ELSE heuristic_answer)
    /\ (pc \in {"loop", "done"} /\ three_of_four_typed /\ outcome.first_rows = "ok") =>
          (~header_decision /\ columns = [i \in 1..4 |-> col_name(i)])

\* the row "1", "2020-01-15", "1.5", "abc" scanned as data although the heuristic
\* answered header present
C14_Witness ==
    /\ pc = "done"
    /\ file = << << <<"1">>, <<"2", "0", "2", "0", "-", "0", "1", "-", "1", "5">>,
                   <<"1", ".", "5">>, <<"a", "b", "c">> >> >>
    /\ outcome.sample = "text" /\ outcome.has_header = "header" /\ outcome.first_rows = "ok"
    /\ ~header_decision
    /\ columns = [i \in 1..4 |-> col_name(i)]
    /\ data_rows_processed = 1

----------------------------------------------------------------------------
(* Claims on a whole call *)

\* no detection step, checksum, open or scan step has left a trace
nothing_done ==
    /\ outcome = pending /\ enc = Idle /\ dialect = Idle /\ file_md5 = Idle
    /\ f = "unopened" /\ full_reads = 0
    /\ columns = << >> /\ stats = << >> /\ dispatched = << >> /\ data_rows_processed = 0

\* C15: a call on a missing path, or on a file of zero bytes, ends at once with
\* FileNotFoundError, respectively ValueError, raised as it is: no encoding or
\* dialect detection, no checksum, no open of the file, no accumulator, no row
\* and no return have happened.
C15_FailFastOnMissingOrEmpty ==
    ((~path.exists \/ path.st_size = 0) /\ pc # "validate") =>
        /\ pc = "raised"
        /\ exc = raised(IF ~path.exists THEN "FileNotFoundError" ELSE "ValueError")
        /\ nothing_done

\* a call on a zero-byte file, with a checksum asked for, that has raised
C15_Witness ==
    /\ pc = "raised" /\ path.exists /\ path.st_size = 0 /\ compute_md5
    /\ exc.kind = "ValueError" /\ nothing_done

\* the error kinds of input validation: those of a missing and of an empty file
VALIDATION_KINDS == {"FileNotFoundError", "ValueError"}

\* C16: a call with an invalid header mode string, once it has failed on that
\* string, has raised an error of an input-validation kind, not the processing
\* error kind RuntimeError, and has dispatched no row.
C16_InvalidHeaderModeIsValidationError ==
    (header_mode(header) = "invalid" /\ pc = "raised" /\ f = "closed") =>
        /\ exc.kind \in VALIDATION_KINDS
        /\ exc.kind # "RuntimeError"
        /\ dispatched = << >>

\* the message m ends with the texts of the message cause
carries(m, cause) ==
    Len(m) > Len(cause) /\ SubSeq(m, Len(m) - Len(cause) + 1, Len(m)) = cause

\* C17: an exception in flight while the file is open leaves the call in the next
\* step, as ValueError if it is a UnicodeDecodeError and as RuntimeError if it is
\* anything else, with a message that carries the message of the original; and
\* whatever leaves a call after validation is a RuntimeError or a ValueError.
C17_OneProcessingErrorKind ==
    [][ /\ (pc = "error" /\ f = "open") =>
              /\ pc' = "raised"
              /\ exc'.kind = (IF exc.kind = "UnicodeDecodeError"
                              THEN "ValueError" ELSE "RuntimeError")
              /\ carries(exc'.message, exc.message)
        /\ (pc # "validate" /\ pc' = "raised") => exc'.kind \in {"RuntimeError", "ValueError"}
      ]_vars

\* a csv.Error raised by the reader after one data row has reached the caller
C17_Witness ==
    /\ pc = "raised" /\ f = "closed" /\ data_rows_processed = 1
    /\ exc = exception("RuntimeError", <<"Error processing CSV file", "csv.Error">>)

\* comma delimiter, double-quote, minimal quoting; a delimiter the caller forces
\* replaces the comma
default_dialect ==
    [ delimiter |-> IF delimiter # None THEN delimiter ELSE <<",">>,
      quotechar |-> <<"\"">>, doublequote |-> TRUE, skipinitialspace |-> FALSE,
      lineterminator |-> <<"\n">>, quoting |-> QUOTE_MINIMAL ]

\* C18: none of the three detection steps raises or ends the call. Encoding
\* detection that raises or reports no encoding gives utf-8; dialect sniffing that
\* raises gives the comma / double-quote / minimal-quoting dialect; the header
\* heuristic that raises, or has no sample to work on, counts as header present,
\* which is the decision unless the first row read meets the typed ratio or the
\* file yields no row. Each step is followed by the next step of the call.
C18_DetectionNeverAborts ==
    [][ /\ pc = "detect_encoding" =>
              /\ pc' = "detect_dialect" /\ exc' = NoException
              /\ outcome'.chardet \in {"raises", "none"} => enc' = UTF8
        /\ pc = "detect_dialect" =>
              /\ pc' = "md5" /\ exc' = NoException
              /\ outcome'.sniff = "raises" => dialect' = default_dialect
        /\ (pc = "header_mode" /\ header_mode(header) = "auto") =>
              /\ pc' = "open" /\ exc' = NoException /\ f' = "open"
              /\ (outcome'.sample # "text" \/ outcome'.has_header = "raises") =>
                    header_decision' = (IF outcome'.first_rows = "raises" THEN TRUE
                                        ELSE file # << >> /\ ~typed_ratio_met)
      ]_vars

\* a scan that returned its rows after all three detection steps had failed
C18_Witness ==
    /\ pc = "returned" /\ data_rows_processed = 2
    /\ outcome.chardet = "raises" /\ outcome.sniff = "raises" /\ outcome.has_header = "raises"
    /\ enc = UTF8 /\ dialect = fallback_dialect

\* C19: when a call has left stream_profile_csv, by its return (at the end of the
\* file or at the row limit) or by an exception, the file handle of the scan is
\* not open: it is closed if it was ever opened; and it is open only between the
\* open of the file and the exit of the with block.
C19_HandleClosedOnExit ==
    /\ pc \in {"returned", "raised"} => f \in {"unopened", "closed"}
    /\ pc = "returned" => f = "closed"
    /\ f = "open" => pc \in {"header_mode", "open", "loop", "done", "error"}
    /\ f = "closed" => pc \in {"returned", "raised"}

\* a reader error after the first data row: the call has raised and the handle is closed
C19_Witness ==
    /\ pc = "raised" /\ f = "closed" /\ data_rows_processed = 1
    /\ exc.kind = "RuntimeError" /\ carries(exc.message, <<"OSError">>)

\* the call was made with the default value of every optional argument
default_arguments ==
    /\ encoding = None /\ delimiter = None /\ header = [str |-> AUTO]
    /\ limit_rows = NoLimit /\ compute_md5

\* C20 as stated: in a call with default arguments the file is read from its
\* start to its end at most once, samples and the header-absent rewind aside.
C20_Original == default_arguments => full_reads <= 1

\* C20: samples and the header-absent rewind aside, the scan reads the file to its
\* end at most once and dispatches no row twice; the only other read of the whole
\* file is that of md5sum, made before the scan when compute_md5 is true (the
\* default), so that a call reads the file to its end at most twice with the
\* checksum and at most once without it.
C20_OnePassApartFromChecksum ==
    /\ \A k \in 1..Len(file) : times_dispatched(k) <= 1
    /\ pos <= Len(file)
    /\ full_reads = (IF outcome.md5 = "ok" THEN 1 ELSE 0)
                    + (IF pc \in {"done", "returned"} /\ pos = Len(file)
                       THEN 1 ELSE 0)
    /\ ~compute_md5 => full_reads <= 1

\* a call with default arguments that returned after md5sum and the scan had each
\* read the file to its end
C20_Witness ==
    /\ pc = "returned" /\ default_arguments /\ Len(file) = 2 /\ data_rows_processed = 2
    /\ file_md5 = hexdigest(file) /\ full_reads = 2

-----------------------------------------------------------------------------
(* Specification SpecSpellings: one accumulator fed the case spellings of   *)
(* the boolean words true, false, yes and no, each spelling once and in     *)
(* list order, with repeats of the first spelling in between.               *)

MaxSpellings == 52
MaxRepeats == 2

BOOL_SPELLINGS ==
    << <<"t", "r", "u", "e">>, <<"t", "r", "u", "E">>, <<"t", "r", "U", "e">>,
       <<"t", "r", "U", "E">>, <<"t", "R", "u", "e">>, <<"t", "R", "u", "E">>,
       <<"t", "R", "U", "e">>, <<"t", "R", "U", "E">>, <<"T", "r", "u", "e">>,
       <<"T", "r", "u", "E">>, <<"T", "r", "U", "e">>, <<"T", "r", "U", "E">>,
       <<"T", "R", "u", "e">>, <<"T", "R", "u", "E">>, <<"T", "R", "U", "e">>,
       <<"T", "R", "U", "E">>, <<"f", "a", "l", "s", "e">>, <<"f", "a", "l", "s", "E">>,
       <<"f", "a", "l", "S", "e">>, <<"f", "a", "l", "S", "E">>, <<"f", "a", "L", "s", "e">>,
       <<"f", "a", "L", "s", "E">>, <<"f", "a", "L", "S", "e">>, <<"f", "a", "L", "S", "E">>,
       <<"f", "A", "l", "s", "e">>, <<"f", "A", "l", "s", "E">>, <<"f", "A", "l", "S", "e">>,
       <<"f", "A", "l", "S", "E">>, <<"f", "A", "L", "s", "e">>, <<"f", "A", "L", "s", "E">>,
       <<"f", "A", "L", "S", "e">>, <<"f", "A", "L", "S", "E">>, <<"F", "a", "l", "s", "e">>,
       <<"F", "a", "l", "s", "E">>, <<"F", "a", "l", "S", "e">>, <<"F", "a", "l", "S", "E">>,
       <<"F", "a", "L", "s", "e">>, <<"F", "a", "L", "s", "E">>, <<"F", "a", "L", "S", "e">>,
       <<"F", "a", "L", "S", "E">>, <<"F", "A", "l", "s", "e">>, <<"F", "A", "l", "s", "E">>,
       <<"F", "A", "l", "S", "e">>, <<"F", "A", "l", "S", "E">>, <<"F", "A", "L", "s", "e">>,
       <<"F", "A", "L", "s", "E">>, <<"F", "A", "L", "S", "e">>, <<"F", "A", "L", "S", "E">>,
       <<"y", "e", "s">>, <<"y", "e", "S">>, <<"y", "E", "s">>,
       <<"y", "E", "S">>, <<"Y", "e", "s">>, <<"Y", "e", "S">>,
       <<"Y", "E", "s">>, <<"Y", "E", "S">>, <<"n", "o">>,
       <<"n", "O">>, <<"N", "o">>, <<"N", "O">> >>

InitSpellings ==
    /\ col = ColumnStats(<<"c">>)
    /\ fed = [spelled |-> 0, repeated |-> 0]
    /\ arg = Idle /\ res = Idle
    /\ file = Idle /\ header_decision = FALSE /\ limit_rows = 0 /\ pos = 0
    /\ columns = Idle /\ stats = Idle /\ data_rows_processed = 0 /\ dispatched = Idle
    /\ pc = "feed"
    /\ IdleCall
    /\ IdleManifest

\* ColumnStats.update(value) with a spelling the column has not held yet
FeedSpelling ==
    /\ pc = "feed"
    /\ fed.spelled < MaxSpellings
    /\ fed.spelled < Len(BOOL_SPELLINGS)
    /\ col' = update(col, BOOL_SPELLINGS[fed.spelled + 1])
    /\ fed' = [fed EXCEPT !.spelled = @ + 1]
    /\ UNCHANGED <<manifest_vars, arg, res, file, header_decision, limit_rows, pos, columns,
                   stats, data_rows_processed, dispatched, pc, call_vars>>

\* ColumnStats.update(value) with a spelling the column already holds
RepeatSpelling ==
    /\ pc = "feed"
    /\ fed.spelled >= 1
    /\ fed.repeated < MaxRepeats
    /\ col' = update(col, BOOL_SPELLINGS[1])
    /\ fed' = [fed EXCEPT !.repeated = @ + 1]
    /\ UNCHANGED <<manifest_vars, arg, res, file, header_decision, limit_rows, pos, columns,
                   stats, data_rows_processed, dispatched, pc, call_vars>>

NextSpellings == FeedSpelling \/ RepeatSpelling

SpecSpellings == InitSpellings /\ [][NextSpellings]_vars

\* C21: a column that resolves to datatype boolean never resolves to role
\* identifier
C21_BooleanNeverIdentifier ==
    xsd_datatype(col) = "boolean" => role(col) # "identifier"

-----------------------------------------------------------------------------
(* C27 *)

\* C27: in every reachable accumulator state could_be_int implies
\* could_be_float; so the datatype is decimal exactly when n_non_missing > 0,
\* could_be_float is true and could_be_int is false, and boolean or dateTime is
\* returned only once could_be_float is false
C27_IntImpliesFloat ==
    /\ col.could_be_int => col.could_be_float
    /\ (xsd_datatype(col) = "decimal")
          <=> (col.n_non_missing > 0 /\ col.could_be_float /\ ~col.could_be_int)
    /\ xsd_datatype(col) \in {"boolean", "dateTime"} => ~col.could_be_float

\* an integer token then a fractional one: the column is decimal
C27_Witness ==
    /\ xsd_datatype(col) = "decimal"
    /\ col.n_non_missing >= 2
    /\ col.could_be_float /\ ~col.could_be_int

-----------------------------------------------------------------------------
(* C28 *)

\* uniq_ratio >= 0.95 for the resolved accumulator
resolved_ratio_ge_095 == 20 * res.distinct >= 19 * max(1, arg.n_non_missing)

-----------------------------------------------------------------------------
(* C30 *)

\* C30: a row limit of 0 is no limit: a scan that returned under limit 0 has
\* read the file to its end, dispatched every data row once and reports
\* rows_read = number of data rows, as a scan without a limit does
C30_ZeroLimitIsNoLimit ==
    (limit_rows \in {<<0>>, NoLimit} /\ pc = "done") =>
        /\ pos = Len(file)
        /\ data_rows_processed = data_rows_in_file
        /\ Len(dispatched) = data_rows_in_file
        /\ \A k \in (Len(file) - data_rows_in_file + 1)..Len(file) : times_dispatched(k) = 1

\* a scan with limit 0 of a file of two data rows that returned after both
C30_Witness ==
    /\ limit_rows = <<0>> /\ pc = "done"
    /\ data_rows_in_file = 2 /\ data_rows_processed = 2
    /\ Len(dispatched) = 2

-----------------------------------------------------------------------------
(* C25 *)

\* the Dataverse file scanned to its end in auto mode with the tab delimiter,
\* the header detection having read its first rows
dataverse_scanned ==
    /\ file = DATAVERSE_TAB /\ delimiter = <<"\t">> /\ header = [str |-> AUTO]
    /\ outcome.first_rows = "ok"
    /\ pc = "done"

\* the first row was processed as data
first_row_is_data ==
    /\ ~header_decision
    /\ columns = [i \in 1..4 |-> col_name(i)]
    /\ dispatched = <<1, 2>> /\ data_rows_processed = 2

-----------------------------------------------------------------------------
(* Specification SpecJsonld: build_jsonld_graph (cdi_generator_jsonld.py) on *)
(* the files_data of header-only files, as a function of the file names and *)
(* the column names.                                                        *)

MaxFiles == 2
MaxColumns == 2

\* [A-Za-z0-9_\-]
FRAGMENT_CHARS ==
    { chr(c) : c \in (48..57) \cup (65..90) \cup (97..122) } \cup {"_", "-"}

\* safe_fragment: every character of s.strip() outside [A-Za-z0-9_\-] becomes "_";
\* an empty result becomes "unnamed"
safe_fragment(s) ==
    LET t == strip(s)
        frag == [i \in 1..Len(t) |-> IF t[i] \in FRAGMENT_CHARS THEN t[i] ELSE "_"]
    IN  IF frag = << >> THEN <<"u", "n", "n", "a", "m", "e", "d">> ELSE frag

\* PurePath.stem: the last component of the path without its last suffix; a
\* leading or a trailing dot starts no suffix. rfind: the last index of a
\* character, 0 when it does not occur
path_stem(s) ==
    LET rfind(t, ch) == IF \E i \in 1..Len(t) : t[i] = ch
                        THEN CHOOSE i \in 1..Len(t) :
                                 t[i] = ch /\ \A j \in (i + 1)..Len(t) : t[j] # ch
                        ELSE 0
        name == SubSeq(s, rfind(s, "/") + 1, Len(s))
        i == rfind(name, ".")
    IN  IF 1 < i /\ i < Len(name) THEN SubSeq(name, 1, i - 1) ELSE name

\* ROLE_TO_COMPONENT_TYPE.get(role, "AttributeComponent")
component_type(r) ==
    CASE r = "identifier" -> "IdentifierComponent"
      [] r = "measure" -> "MeasureComponent"
      [] r = "dimension" -> "DimensionComponent"
      [] OTHER -> "AttributeComponent"

\* full_frag = f"{file_prefix}_{var_frag}" if file_prefix else var_frag
\* with file_prefix = safe_fragment(Path(file_name).stem) if file_name else ""
full_frag(file_name, cname) ==
    LET file_prefix == IF file_name # << >> THEN safe_fragment(path_stem(file_name))
                       ELSE << >>
    IN  IF file_prefix # << >> THEN file_prefix \o <<"_">> \o safe_fragment(cname)
        ELSE safe_fragment(cname)

\* the nodes build_jsonld_graph appends for one column, in the order of the
\* appends: value domain, variable, component, ValueMapping, ValueMappingPosition
column_nodes(file_name, cname, col_stats) ==
    LET ff == full_frag(file_name, cname)
    IN  << [id |-> <<"#">> \o ff \o <<"_", "S", "u", "b", "s", "t", "a", "n", "t", "i", "v", "e", "_", "V", "a", "l", "u", "e", "_", "D", "o", "m", "a", "i", "n">>,
            type |-> "SubstantiveValueDomain", column |-> cname],
           [id |-> <<"#">> \o ff,
            type |-> "InstanceVariable", column |-> cname],
           [id |-> <<"#">> \o ff \o <<"_", "C", "o", "m", "p", "o", "n", "e", "n", "t">>,
            type |-> component_type(role(col_stats)), column |-> cname],
           [id |-> <<"#", "v", "a", "l", "u", "e", "M", "a", "p", "p", "i", "n", "g", "_">> \o ff,
            type |-> "ValueMapping", column |-> cname],
           [id |-> <<"#", "V", "a", "l", "u", "e", "M", "a", "p", "p", "i", "n", "g", "P", "o", "s", "i", "t", "i", "o", "n", "_">> \o ff,
            type |-> "ValueMappingPosition", column |-> cname] >>

\* the column nodes of one file: for col_name, col_stats in zip(columns, stats)
RECURSIVE file_nodes(_, _)
file_nodes(file_data, i) ==
    IF i > min(Len(file_data.columns), Len(file_data.stats)) THEN << >>
    ELSE column_nodes(file_data.file_name, file_data.columns[i], file_data.stats[i])
             \o file_nodes(file_data, i + 1)

\* the column nodes of build_jsonld_graph(files_data), each tagged with the
\* index of its file
RECURSIVE build_jsonld_graph(_, _)
build_jsonld_graph(fdata, k) ==
    IF k > Len(fdata) THEN << >>
    ELSE LET nodes == file_nodes(fdata[k], 1)
         IN  [n \in 1..Len(nodes) |->
                 [id |-> nodes[n].id, type |-> nodes[n].type,
                  column |-> nodes[n].column, file |-> k]]
             \o build_jsonld_graph(fdata, k + 1)

\* what generate_manifest_jsonld appends to files_data for a file that holds a
\* header row only: the file names a.csv, a.tab, b.csv and d/a.csv, the header
\* cells "x", "x y" and "x_y"
FILES_DATA ==
    LET file_names == { <<"a", ".", "c", "s", "v">>, <<"a", ".", "t", "a", "b">>,
                        <<"b", ".", "c", "s", "v">>, <<"d", "/", "a", ".", "c", "s", "v">> }
        column_names == { <<"x">>, <<"x", " ", "y">>, <<"x", "_", "y">> }
    IN  { [file_name |-> fn, columns |-> cols, stats |-> new_stats(cols)] :
              fn \in file_names,
              cols \in UNION { [1..n -> column_names] : n \in 1..MaxColumns } }

InitJsonld ==
    /\ arg \in UNION { [1..n -> FILES_DATA] : n \in 1..MaxFiles }
    /\ res = Idle
    /\ col = Idle /\ fed = Idle
    /\ file = Idle /\ header_decision = FALSE /\ limit_rows = 0 /\ pos = 0
    /\ columns = Idle /\ stats = Idle /\ data_rows_processed = 0 /\ dispatched = Idle
    /\ pc = "idle"
    /\ IdleCall
    /\ IdleManifest

\* build_jsonld_graph(files_data=arg)
BuildJsonldGraph ==
    /\ res = Idle
    /\ res' = build_jsonld_graph(arg, 1)
    /\ UNCHANGED <<manifest_vars, col, fed, arg, file, header_decision, limit_rows, pos, columns,
                   stats, data_rows_processed, dispatched, pc, call_vars>>

NextJsonld == BuildJsonldGraph

SpecJsonld == InitJsonld /\ [][NextJsonld]_vars

\* two nodes of the graph that are not the same kind of node of one column:
\* they come from different files, from differently named columns or are of
\* different kinds
different_nodes(a, b) == a.file # b.file \/ a.column # b.column \/ a.type # b.type

\* C26: the @id values of the variable, component, value-domain, ValueMapping
\* and ValueMappingPosition nodes are pairwise distinct across all columns of
\* all files: no two columns share a node @id
C26_NodeIdsUnique ==
    res # Idle =>
        \A i, j \in 1..Len(res) : different_nodes(res[i], res[j]) => res[i].id # res[j].id

-----------------------------------------------------------------------------
(* Specification SpecManifest: generate_manifest_cdi and                    *)
(* generate_manifest_jsonld called by main on a manifest of files that name *)
(* their header row. The DDI side files and the Dataverse metadata beyond   *)
(* the description are absent.                                              *)

MaxManifestFiles == 3

\* rdflib terms: a URIRef, a BNode, a Literal (of a text, or of a role in term),
\* and a term of a vocabulary
URIRef(s) == [kind |-> "uri", value |-> s, term |-> ""]

BNode(n) == [kind |-> "bnode", value |-> <<"b">> \o str_of_int(n), term |-> ""]

Literal(s) == [kind |-> "literal", value |-> s, term |-> ""]

vocabulary(t) == [kind |-> "term", value |-> << >>, term |-> t]

\* safe_uri_fragment: every character of s.strip() outside [A-Za-z0-9_\-] becomes
\* "_"; an empty result becomes "unnamed"
safe_uri_fragment(s) ==
    LET t == strip(s)
        frag == [i \in 1..Len(t) |-> IF t[i] \in FRAGMENT_CHARS THEN t[i] ELSE "_"]
    IN  IF frag = << >> THEN <<"u", "n", "n", "a", "m", "e", "d">> ELSE frag

\* file_format: str = "text/csv"
TEXT_CSV == <<"t", "e", "x", "t", "/", "c", "s", "v">>

\* the variable and role triples of one column (lines 886-901, no DDI labels)
variable_triples(dataset_uri, logical, name, st) ==
    LET frag == safe_uri_fragment(name)
        var == URIRef(dataset_uri.value \o <<"#", "v", "a", "r", "/">> \o frag)
        role_node == URIRef(dataset_uri.value \o <<"#", "r", "o", "l", "e", "/">> \o frag)
    IN  { <<var, "rdf:type", vocabulary("cdi:Variable")>>,
          <<var, "skos:prefLabel", Literal(name)>>,
          <<var, "dcterms:identifier", Literal(name)>>,
          <<var, "cdi:hasRepresentation", vocabulary(xsd_datatype(st))>>,
          <<role_node, "rdf:type", vocabulary("cdi:Role")>>,
          <<role_node, "skos:prefLabel", [Literal(<< >>) EXCEPT !.term = role(st)]>>,
          <<var, "cdi:hasRole", role_node>>,
          <<logical, "cdi:containsVariable", var>> }

\* logical_frag = safe_uri_fragment(f"logical_{file_format.replace('/', '_')}")
logical_frag ==
    safe_uri_fragment(<<"l", "o", "g", "i", "c", "a", "l", "_">>
                      \o [i \in 1..Len(TEXT_CSV) |->
                             IF TEXT_CSV[i] = "/" THEN "_" ELSE TEXT_CSV[i]])

\* the logical node as a blank node of its own for every file
logical_node_blank(dataset_uri, g) ==
    BNode(Cardinality({ t[1] : t \in { u \in g : u[1].kind = "bnode" } }) + 3)

\* logical = URIRef(f"{dataset_uri_str}#logical/{logical_frag}")
logical_node(dataset_uri, g) == URIRef(dataset_uri.value \o <<"#", "l", "o", "g", "i", "c", "a", "l", "/">> \o logical_frag)

\* add_file_to_dataset_graph with file_format left at its default and without
\* DDI metadata: the graph with the triples of one file added; phys and step
\* are blank nodes the graph does not hold yet
add_file_to_dataset_graph(g, dataset_uri, cols, sts, file_uri, md5, process_description, dataset_description, file_name) ==
    LET bnodes == { t[1] : t \in { u \in g : u[1].kind = "bnode" } }
        phys == BNode(Cardinality(bnodes) + 1)
        step == BNode(Cardinality(bnodes) + 2)
        logical == logical_node(dataset_uri, g)
        source == IF file_name # None THEN file_name
                  ELSE IF file_uri # None THEN file_uri ELSE <<"u", "n", "k", "n", "o", "w", "n">>
    IN  g \cup { <<phys, "rdf:type", vocabulary("cdi:PhysicalDataSet")>>,
                 <<phys, "dcterms:format", Literal(TEXT_CSV)>>,
                 <<dataset_uri, "cdi:hasPhysicalDataSet", phys>>,
                 <<logical, "rdf:type", vocabulary("cdi:LogicalDataSet")>>,
                 <<logical, "dcterms:identifier",
                   Literal(<<"l", "o", "g", "i", "c", "a", "l", "-", "d", "a", "t", "a", "s", "e", "t", "-">> \o logical_frag)>>,
                 <<logical, "skos:prefLabel",
                   Literal(IF file_name # None THEN <<"L", "o", "g", "i", "c", "a", "l", " ", "d", "a", "t", "a", "s", "e", "t", ":", " ">> \o file_name
                           ELSE <<"L", "o", "g", "i", "c", "a", "l", " ", "d", "a", "t", "a", "s", "e", "t", " ", "(">> \o TEXT_CSV \o <<")">>)>>,
                 <<dataset_uri, "cdi:hasLogicalDataSet", logical>>,
                 <<step, "rdf:type", vocabulary("cdi:ProcessStep")>>,
                 <<step, "dcterms:description", Literal(process_description)>>,
                 <<dataset_uri, "prov:wasGeneratedBy", step>> }
          \cup (IF file_uri # None
                THEN { <<phys, "dcterms:identifier", URIRef(file_uri)>> } ELSE {})
          \cup (IF md5 # None /\ md5 # << >>
                THEN { <<phys, "dcterms:provenance", Literal(<<"m", "d", "5", ":">> \o md5)>> } ELSE {})
          \cup (IF dataset_description # None
                THEN { <<logical, "dcterms:description",
                         Literal(dataset_description
                                 \o <<"\n", "\n">>
                                 \o <<"L", "o", "g", "i", "c", "a", "l", " ", "r", "e", "p", "r", "e", "s", "e", "n", "t", "a", "t", "i", "o", "n", " ", "o", "f", " ", "d", "a", "t", "a", " ", "f", "r", "o", "m", " ", "f", "i", "l", "e", ":", " ">>
                                 \o source)>> }
                ELSE IF file_uri # None
                THEN { <<logical, "dcterms:description",
                         Literal(<<"L", "o", "g", "i", "c", "a", "l", " ", "r", "e", "p", "r", "e", "s", "e", "n", "t", "a", "t", "i", "o", "n", " ", "o", "f", " ", "d", "a", "t", "a", " ", "f", "r", "o", "m", " ">> \o file_uri)>> }
                ELSE IF file_name # None
                THEN { <<logical, "dcterms:description",
                         Literal(<<"L", "o", "g", "i", "c", "a", "l", " ", "r", "e", "p", "r", "e", "s", "e", "n", "t", "a", "t", "i", "o", "n", " ", "o", "f", " ", "d", "a", "t", "a", " ", "f", "r", "o", "m", " ">> \o file_name)>> }
                ELSE {})
          \cup UNION { variable_triples(dataset_uri, logical, cols[i], sts[i]) :
                          i \in 1..min(Len(cols), Len(sts)) }

\* the accumulators after the data rows k.. of a file were dispatched
RECURSIVE profiled(_, _, _)
profiled(sts, rows, k) ==
    IF k > Len(rows) THEN sts
    ELSE profiled(dispatch(sts, pad_or_trim(rows[k], Len(sts))), rows, k + 1)

\* stream_profile_csv(csv_path, header=True, compute_md5=False) on a file that
\* csv.reader reads without error: what it returns or raises
stream_profile_csv(rows) ==
    IF rows = << >>
    THEN [raised |-> "ValueError", columns |-> << >>, stats |-> << >>, rows_read |-> 0]
    ELSE [raised |-> "none", columns |-> rows[1],
          stats |-> profiled(new_stats(rows[1]), rows, 2),
          rows_read |-> Len(rows) - 1]

\* total_rows with the last file's rows_read in place of the sum
add_rows_keeps_last(total, rows_read) == rows_read

\* total_rows += info.get("rows_read", 0)
add_rows(total, rows_read) == total + rows_read

\* the column entries of the summary: for name, st in zip(columns, stats)
column_entries(cols, sts) ==
    [i \in 1..min(Len(cols), Len(sts)) |->
        [name |-> cols[i], datatype |-> xsd_datatype_name(sts[i]), role |-> role(sts[i]),
         approx_distinct |-> approx_distinct(sts[i]), non_missing |-> sts[i].n_non_missing]]

\* the files of the manifests: with csv_path or without, existing or not, with a
\* ddi_path that names no file or without, and the rows of the file
ONE_CSV ==
    [csv_path |-> TRUE, exists |-> TRUE, file_name |-> <<"o", "n", "e", ".", "c", "s", "v">>, ddi_path |-> "none",
     rows |-> << <<<<"i", "d">>, <<"v">>>>, <<<<"1">>, <<"a", "b", "c">>>>, <<<<"2">>, <<"1", ".", "5">>>> >>]

TWO_CSV ==
    [csv_path |-> TRUE, exists |-> TRUE, file_name |-> <<"t", "w", "o", ".", "c", "s", "v">>, ddi_path |-> "missing",
     rows |-> << <<<<"i", "d">>>>, <<<<"1">>>> >>]

NO_CSV_PATH ==
    [csv_path |-> FALSE, exists |-> FALSE, file_name |-> <<"x", ".", "c", "s", "v">>, ddi_path |-> "none",
     rows |-> << >>]

MISSING_CSV ==
    [csv_path |-> TRUE, exists |-> FALSE, file_name |-> <<"g", "o", "n", "e", ".", "c", "s", "v">>, ddi_path |-> "none",
     rows |-> << >>]

EMPTY_CSV ==
    [csv_path |-> TRUE, exists |-> TRUE, file_name |-> <<"e", "m", "p", "t", "y", ".", "c", "s", "v">>, ddi_path |-> "none",
     rows |-> << >>]

FILE_CFGS == {ONE_CSV, TWO_CSV, NO_CSV_PATH, MISSING_CSV, EMPTY_CSV}

\* URIRef(dataset_uri_base.rstrip("/") + "/" + dataset_pid)
RECURSIVE rstrip_slash(_)
rstrip_slash(s) ==
    IF s # << >> /\ s[Len(s)] = "/" THEN rstrip_slash(SubSeq(s, 1, Len(s) - 1)) ELSE s

dataset_uri_of(m) == URIRef(rstrip_slash(m.dataset_uri_base) \o <<"/">> \o m.dataset_pid)

InitManifest ==
    /\ manifest \in
         [ generator : {"cdi", "jsonld"},
           dataset_pid : {<<"d", "o", "i", ":", "1">>},
           dataset_uri_base : {<<"h", "t", "t", "p", "s", ":", "/", "/", "e", ".", "o", "r", "g", "/", "d", "a", "t", "a", "s", "e", "t", "/">>},
           dataset_description : {None, <<"A", "b", "o", "u", "t", ".">>},
           files : UNION { [1..n -> FILE_CFGS] : n \in 0..MaxManifestFiles },
           summary_json : BOOLEAN ]
    /\ next_file = 1 /\ graph = {} /\ files_data = << >>
    /\ summary_payload = << >> /\ total_rows = 0 /\ warnings = << >>
    /\ output = [document_written |-> FALSE, triples |-> {}, nodes |-> << >>,
                 summary_written |-> FALSE, summary |-> << >>]
    /\ result = Idle
    /\ cli = [exited |-> FALSE, status |-> 0, stderr |-> << >>, logged |-> << >>]
    /\ pc = "manifest_start"
    /\ col = Idle /\ fed = Idle /\ arg = Idle /\ res = Idle
    /\ file = Idle /\ header_decision = FALSE /\ limit_rows = 0 /\ pos = 0
    /\ columns = Idle /\ stats = Idle /\ data_rows_processed = 0 /\ dispatched = Idle
    /\ IdleCall

idle_vars == <<col, fed, arg, res, file, header_decision, limit_rows, pos, columns,
               stats, data_rows_processed, dispatched, arg_vars, detect_vars, f, full_reads>>

\* the generator up to its loop: the manifest must list files; the graph starts
\* with the dataset node
ManifestStart ==
    /\ pc = "manifest_start"
    /\ IF manifest.files = << >>
       THEN /\ exc' = raised("ValueError") /\ pc' = "manifest_raised"
            /\ UNCHANGED graph
       ELSE /\ graph' = IF manifest.generator = "cdi"
                        THEN { <<dataset_uri_of(manifest), "rdf:type",
                                 vocabulary("cdi:DataSet")>>,
                               <<dataset_uri_of(manifest), "dcterms:identifier",
                                 Literal(manifest.dataset_pid)>> }
                             \cup (IF manifest.dataset_description # None
                                   THEN { <<dataset_uri_of(manifest), "dcterms:description",
                                            Literal(manifest.dataset_description)>> }
                                   ELSE {})
                        ELSE graph
            /\ pc' = "manifest_loop"
            /\ UNCHANGED exc
    /\ UNCHANGED <<idle_vars, manifest, next_file, files_data, summary_payload, total_rows,
                   warnings, output, result, cli>>

\* one iteration of "for file_cfg in files_cfg": the checks of the entry, the
\* profiling of the file, the file's part of the graph (or of files_data) and
\* its summary entry
ProcessFile ==
    /\ pc = "manifest_loop" /\ next_file <= Len(manifest.files)
    /\ LET file_cfg == manifest.files[next_file]
           profile == stream_profile_csv(file_cfg.rows)
           noted == IF file_cfg.ddi_path = "missing"
                    THEN Append(warnings, <<"D", "D", "I", " ", "m", "e", "t", "a", "d", "a", "t", "a", " ", "f", "i", "l", "e", " ", "m", "i", "s", "s", "i", "n", "g", " ", "f", "o", "r", " ">>
                                          \o file_cfg.file_name)
                    ELSE warnings
       IN  IF ~file_cfg.csv_path
           THEN /\ exc' = raised("ValueError") /\ pc' = "manifest_raised"
                /\ UNCHANGED <<next_file, graph, files_data, summary_payload, total_rows,
                               warnings>>
           ELSE IF ~file_cfg.exists
           THEN /\ exc' = raised("FileNotFoundError") /\ pc' = "manifest_raised"
                /\ UNCHANGED <<next_file, graph, files_data, summary_payload, total_rows,
                               warnings>>
           ELSE IF profile.raised # "none"
           THEN /\ exc' = raised(profile.raised) /\ pc' = "manifest_raised"
                /\ warnings' = noted
                /\ UNCHANGED <<next_file, graph, files_data, summary_payload, total_rows>>
           ELSE /\ warnings' = noted
                /\ graph' =
                     IF manifest.generator = "cdi"
                     THEN add_file_to_dataset_graph(
                              graph, dataset_uri_of(manifest), profile.columns,
                              profile.stats, None, None,
                              <<"G", "e", "n", "e", "r", "a", "t", "e", "d", " ", "C", "D", "I", " ", "f", "r", "o", "m", " ", "C", "S", "V", " ", "v", "i", "a", " ", "s", "t", "r", "e", "a", "m", "i", "n", "g", " ", "p", "r", "o", "f", "i", "l", "e", "r", " ", "(", "f", "i", "l", "e", ":", " ">>
                                  \o file_cfg.file_name \o <<")">>,
                              manifest.dataset_description, file_cfg.file_name)
                     ELSE graph
                /\ files_data' =
                     IF manifest.generator = "jsonld"
                     THEN Append(files_data, [file_name |-> file_cfg.file_name,
                                              columns |-> profile.columns,
                                              stats |-> profile.stats])
                     ELSE files_data
                /\ total_rows' = add_rows(total_rows, profile.rows_read)
                /\ summary_payload' =
                     Append(summary_payload,
                            [file |-> file_cfg.file_name,
                             rows_profiled |-> profile.rows_read,
                             columns |-> column_entries(profile.columns, profile.stats)])
                /\ next_file' = next_file + 1
                /\ UNCHANGED <<exc, pc>>
    /\ UNCHANGED <<idle_vars, manifest, output, result, cli>>

\* after the loop: the document is written, then the summary if summary_json is
\* given, and the tuple is returned
WriteOutputs ==
    /\ pc = "manifest_loop" /\ next_file > Len(manifest.files)
    /\ output' = [document_written |-> TRUE,
                  triples |-> graph,
                  nodes |-> IF manifest.generator = "jsonld"
                            THEN build_jsonld_graph(files_data, 1) ELSE << >>,
                  summary_written |-> manifest.summary_json,
                  summary |-> IF manifest.summary_json
                              THEN << [dataset_pid |-> manifest.dataset_pid,
                                       rows_profiled |-> total_rows,
                                       files |-> summary_payload] >>
                              ELSE << >>]
    /\ result' = << [warnings |-> warnings, total_rows |-> total_rows,
                     files_processed |-> Len(manifest.files)] >>
    /\ pc' = "manifest_returned"
    /\ UNCHANGED <<idle_vars, exc, manifest, next_file, graph, files_data, summary_payload,
                   total_rows, warnings, cli>>

\* main after the generator returned: it returns, and the exit status is 0
MainReturn ==
    /\ pc = "manifest_returned"
    /\ cli' = [exited |-> TRUE, status |-> 0, stderr |-> << >>, logged |-> << >>]
    /\ pc' = "exited"
    /\ UNCHANGED <<idle_vars, exc, manifest, next_file, graph, files_data, summary_payload,
                   total_rows, warnings, output, result>>

\* main's except clause leaving with status 0
MainExcept_exit_0 ==
    /\ pc = "manifest_raised"
    /\ cli' = [exited |-> TRUE, status |-> 0,
               stderr |-> << <<"[", "E", "R", "R", "O", "R", "]", " ">> \o exc.message >>,
               logged |-> << <<"E", "r", "r", "o", "r", " ", "d", "u", "r", "i", "n", "g", " ", "c", "o", "n", "v", "e", "r", "s", "i", "o", "n", ":", " ">> \o exc.message >>]
    /\ pc' = "exited"
    /\ UNCHANGED <<idle_vars, exc, manifest, next_file, graph, files_data, summary_payload,
                   total_rows, warnings, output, result>>

\* main's except clause: logging.error("Error during conversion: %s", e);
\* print(f"[ERROR] {e}", file=sys.stderr); sys.exit(1)
MainExcept ==
    /\ pc = "manifest_raised"
    /\ cli' = [exited |-> TRUE, status |-> 1,
               stderr |-> << <<"[", "E", "R", "R", "O", "R", "]", " ">> \o exc.message >>,
               logged |-> << <<"E", "r", "r", "o", "r", " ", "d", "u", "r", "i", "n", "g", " ", "c", "o", "n", "v", "e", "r", "s", "i", "o", "n", ":", " ">> \o exc.message >>]
    /\ pc' = "exited"
    /\ UNCHANGED <<idle_vars, exc, manifest, next_file, graph, files_data, summary_payload,
                   total_rows, warnings, output, result>>

NextManifest == ManifestStart \/ ProcessFile \/ WriteOutputs \/ MainReturn \/ MainExcept

SpecManifest == InitManifest /\ [][NextManifest]_vars

-----------------------------------------------------------------------------
(* Claims on a manifest run *)

\* the data rows of a manifest file whose first row is its header
data_rows_of(file_cfg) == Len(file_cfg.rows) - 1

RECURSIVE sum_data_rows(_, _)
sum_data_rows(cfgs, n) == IF n = 0 THEN 0 ELSE sum_data_rows(cfgs, n - 1) + data_rows_of(cfgs[n])

\* the summary entries are those of the first n manifest files, in manifest order,
\* each with its own file's name and data rows
entries_follow_manifest(entries, n) ==
    /\ Len(entries) = n
    /\ \A i \in 1..n :
          /\ entries[i].file = manifest.files[i].file_name
          /\ entries[i].rows_profiled = data_rows_of(manifest.files[i])

\* C22: both generators process the manifest's files in order and return
\* (warnings, total_rows, files_processed) with total_rows the sum of the rows
\* processed per file and files_processed the number of file entries; the
\* summary JSON holds one entry per file, in manifest order, each with that
\* file's own rows_profiled
C22_ManifestTotals ==
    /\ pc = "manifest_loop" =>
          /\ entries_follow_manifest(summary_payload, next_file - 1)
          /\ total_rows = sum_data_rows(manifest.files, next_file - 1)
    /\ result # Idle =>
          /\ result[1].warnings = warnings
          /\ result[1].total_rows = sum_data_rows(manifest.files, Len(manifest.files))
          /\ result[1].files_processed = Len(manifest.files)
          /\ output.summary_written = manifest.summary_json
          /\ output.summary_written =>
                /\ entries_follow_manifest(output.summary[1].files, Len(manifest.files))
                /\ output.summary[1].rows_profiled = result[1].total_rows

\* one.csv then two.csv then one.csv: 5 rows, entries of 2, 1 and 2 rows
C22_Witness ==
    /\ pc = "exited" /\ result # Idle
    /\ manifest.files = <<ONE_CSV, TWO_CSV, ONE_CSV>>
    /\ result[1].total_rows = 5 /\ result[1].files_processed = 3
    /\ output.summary_written
    /\ [i \in 1..3 |-> output.summary[1].files[i].rows_profiled] = <<2, 1, 2>>

\* processing failed: an exception left the generator
processing_failed == pc = "manifest_raised" \/ (pc = "exited" /\ exc # NoException)

linked_by(g, p) == { t[3] : t \in { u \in g : u[2] = p } }

typed(g, t) == { u[1] : u \in { v \in g : v[2] = "rdf:type" /\ v[3] = vocabulary(t) } }

carries_property(g, node, p) == \E t \in g : t[1] = node /\ t[2] = p

\* C24: in the graph generate_manifest_cdi writes, every node linked from the
\* dataset by hasLogicalDataSet is a blank node typed LogicalDataSet that
\* carries an identifier, a prefLabel and a description, and every node linked
\* by hasPhysicalDataSet is a blank node
C24_LogicalAndPhysicalAreBlank ==
    (output.document_written /\ manifest.generator = "cdi") =>
        /\ \A node \in linked_by(output.triples, "cdi:hasLogicalDataSet") :
              /\ node.kind = "bnode"
              /\ node \in typed(output.triples, "cdi:LogicalDataSet")
              /\ carries_property(output.triples, node, "dcterms:identifier")
              /\ carries_property(output.triples, node, "skos:prefLabel")
              /\ carries_property(output.triples, node, "dcterms:description")
        /\ \A node \in linked_by(output.triples, "cdi:hasPhysicalDataSet") :
              node.kind = "bnode"

\* <dataset>#logical/logical_text_csv
LOGICAL_TEXT_CSV ==
    URIRef(<<"h", "t", "t", "p", "s", ":", "/", "/", "e", ".", "o", "r", "g", "/", "d", "a", "t", "a", "s", "e", "t", "/", "d", "o", "i", ":", "1", "#", "l", "o", "g", "i", "c", "a", "l", "/", "l", "o", "g", "i", "c", "a", "l", "_", "t", "e", "x", "t", "_", "c", "s", "v">>)

\* the files processed so far
files_done == next_file - 1

\* the logical node holds the variables, the label and the description of
\* manifest file i
accumulates_file(g, node, i) ==
    LET file_cfg == manifest.files[i]
    IN  /\ \A c \in 1..Len(file_cfg.rows[1]) :
              <<node, "cdi:containsVariable",
                URIRef(dataset_uri_of(manifest).value \o <<"#", "v", "a", "r", "/">>
                       \o safe_uri_fragment(file_cfg.rows[1][c]))>> \in g
        /\ <<node, "skos:prefLabel",
             Literal(<<"L", "o", "g", "i", "c", "a", "l", " ", "d", "a", "t", "a", "s", "e", "t", ":", " ">> \o file_cfg.file_name)>> \in g
        /\ \E t \in g :
              /\ t[1] = node /\ t[2] = "dcterms:description"
              /\ \E k \in 1..Len(t[3].value) :
                    SubSeq(t[3].value, k, Len(t[3].value)) = file_cfg.file_name

====
